---- MODULE Spec2Model ----
(***************************************************************************)
(* Model of the Ad Ops trafficking core: the payload router                *)
(* (src/src/trafficking/engine.py, TraffickingEngine) and the QA           *)
(* evaluator (src/src/trafficking/qa_engine.py, QAEngine); the pipeline    *)
(* that drives them (src/src/orchestrator.py, Orchestrator.run_pipeline)   *)
(* with its alerts (src/src/alerting/pipeline.py, AlertPipeline); and the  *)
(* job runner (src/src/pipelines/job_runner.py, DatabricksJobRunner).      *)
(* Three specifications share the module: Spec makes single calls of the   *)
(* router and the evaluator, PipelineSpec runs run_pipeline step by step,  *)
(* JobSpec calls the job runner.  The variables of the other two stay at   *)
(* their idle values in each.                                              *)
(*                                                                         *)
(* Python values.  A dict is a function from its keys to values, so a      *)
(* missing key is a key outside DOMAIN.  The values are dynamically typed  *)
(* in the source; here a value carries its type: PyStr(s) is the str s,    *)
(* PyInt(n) the int n, PyList(q) the list q and PyNone is None.  A str is  *)
(* a TLA+ string; substring, prefix and count are computed on its          *)
(* characters.  An operation the source applies to a value of the wrong    *)
(* type raises, and the model records the exception's class name.          *)
(***************************************************************************)
EXTENDS Integers, Sequences, FiniteSets, TLC

VARIABLES
    ticket,      \* ticket_fields handed to the router
    campaign,    \* campaign_fields handed to the router and the evaluator
    pc,          \* which call has been made: "start", "routed", "taxonomy", "eve", "checked",
                 \* the name of a check called on its own, or "routed_again", "checked_again"
                 \* after the same call has been made a second time
    clock,       \* the last reading of datetime.now()
    payloads,    \* the payload sequence: process_ticket's return value, run_all_checks' argument
    taxonomy,    \* build_placement_taxonomy's return value
    eve,         \* the last get_eve_version call: its arguments and its return value
    results,     \* run_all_checks' return value
    verdict,     \* the return value of a check called on its own
    previous,    \* what the first of two identical calls returned
    raised,      \* class name of the exception the last call raised, "none" when it returned
    \* run_pipeline
    airtable,    \* the datastore: each ticket's stage and notes, the QA check rows written
    alerter,     \* the AlertPipeline: its slack_url and teams_url
    tickets,     \* run_pipeline's local `tickets`, what get_pending_tickets returned
    index,       \* position of the for loop in tickets, 0 before the first ticket
    written,     \* position of the loop over check_results
    failures,    \* run_pipeline's local `failures`
    calls,       \* the calls run_pipeline has made to its collaborators, in order
    \* the job runner
    workspace,   \* the jobs the Databricks workspace holds, in list order
    config,      \* the arguments of the call being made
    elapsed,     \* wait_for_run: time.time() - start
    polled,      \* wait_for_run's local `state`, "unbound" before the first poll
    returned     \* the values the job runner's calls have returned, in order

orchestrator_vars == <<airtable, alerter, tickets, index, written, failures, calls>>

job_vars == <<workspace, config, elapsed, polled, returned>>

vars == <<ticket, campaign, pc, clock, payloads, taxonomy, eve, results, verdict, previous,
          raised, orchestrator_vars, job_vars>>

----------------------------------------------------------------------------
(* Bounds of the model. *)

\* largest wall-clock reading
MaxClock == 1
\* longest payload sequence handed to run_all_checks directly
MaxPayloads == 2

----------------------------------------------------------------------------
(* Python values and the str / dict operations the source uses. *)

PyStr(s) == [t |-> "str", v |-> s]
PyInt(n) == [t |-> "int", v |-> n]
PyList(q) == [t |-> "list", v |-> q]
PyNone == [t |-> "none"]

\* d.get(k, default)
Get(d, k, default) == IF k \in DOMAIN d THEN d[k] ELSE default

\* d.get(k)
GetOrNone(d, k) == Get(d, k, PyNone)

\* sub in s, for two strs
Contains(sub, s) ==
    \E i \in 1..(Len(s) - Len(sub) + 1) : SubSeq(s, i, i + Len(sub) - 1) = sub

\* s.startswith(prefix)
StartsWith(s, prefix) ==
    Len(s) >= Len(prefix) /\ SubSeq(s, 1, Len(prefix)) = prefix

\* s.count(ch) for a one-character ch
Count(s, ch) == Cardinality({i \in 1..Len(s) : SubSeq(s, i, i) = ch})

\* what an f-string writes for a value: str(x)
Format(x) ==
    CASE x.t = "str" -> x.v
      [] x.t = "int" -> ToString(x.v)
      [] x.t = "none" -> "None"

\* bool(x)
Truthy(x) ==
    CASE x.t = "str" -> x.v # ""
      [] x.t = "int" -> x.v # 0
      [] x.t = "list" -> Len(x.v) > 0
      [] x.t = "none" -> FALSE

----------------------------------------------------------------------------
(* engine.py *)

\* the dataclass constructor; status and response take their defaults,
\* created_at is the reading of datetime.now() at construction
TraffickingPayload(campaign_id, platform, action, payload, created_at) ==
    [campaign_id |-> campaign_id,
     platform    |-> platform,
     action      |-> action,
     payload     |-> payload,
     status      |-> "Pending",
     response    |-> PyNone,
     created_at  |-> created_at]

\* mutant: "ProgNative" is left out of the V2.2 channels
NativeNotV22(platform, channel_mapped) ==
    IF platform = "CM360" /\ channel_mapped \in {"ProgAudio", "ProgCTV"}
    THEN "V2.2"
    ELSE IF platform = "CM360" /\ channel_mapped = "YouTube" THEN "V2.1"
    ELSE IF platform = "Yahoo DSP" THEN "V2"
    ELSE IF platform = "Amazon DSP" THEN "V3"
    ELSE IF platform = "DV360" THEN "V1"
    ELSE "V1"

get_eve_version(platform, channel_mapped) ==
    IF platform = "CM360" /\ channel_mapped \in {"ProgAudio", "ProgCTV", "ProgNative"}
    THEN "V2.2"
    ELSE IF platform = "CM360" /\ channel_mapped = "YouTube" THEN "V2.1"
    ELSE IF platform = "Yahoo DSP" THEN "V2"
    ELSE IF platform = "Amazon DSP" THEN "V3"
    ELSE IF platform = "DV360" THEN "V1"
    ELSE "V1"

\* mutant: brand and title are written in the other order
TitleBeforeBrand(tkt, cmp) ==
    LET camp_name == Get(cmp, "campaign_name", PyStr("UNKNOWN_CAMP"))
        geo       == Get(cmp, "targeting_geo", Get(tkt, "targeting_geo", PyStr("UNKNOWN_GEO")))
        lang      == Get(cmp, "language", PyStr("ENG"))
        brand     == Get(cmp, "brand_code", Get(tkt, "brand", PyStr("UNKNOWN_BRAND")))
        title     == Get(cmp, "title_name", PyStr("UNKNOWN_TITLE"))
        objective == Get(cmp, "campaign_objective", PyStr("Acq"))
        channel   == Get(cmp, "channel_mapped", PyStr("ProgDisplay"))
    IN  Format(camp_name) \o "|" \o Format(geo) \o "|" \o Format(lang) \o "|"
          \o Format(title) \o "|" \o Format(brand) \o "|" \o Format(objective)
          \o "|" \o Format(channel)

\* mutant: the geo falls back to "UNKNOWN_GEO" without consulting the ticket
GeoIgnoresTicket(tkt, cmp) ==
    LET camp_name == Get(cmp, "campaign_name", PyStr("UNKNOWN_CAMP"))
        geo       == Get(cmp, "targeting_geo", PyStr("UNKNOWN_GEO"))
        lang      == Get(cmp, "language", PyStr("ENG"))
        brand     == Get(cmp, "brand_code", Get(tkt, "brand", PyStr("UNKNOWN_BRAND")))
        title     == Get(cmp, "title_name", PyStr("UNKNOWN_TITLE"))
        objective == Get(cmp, "campaign_objective", PyStr("Acq"))
        channel   == Get(cmp, "channel_mapped", PyStr("ProgDisplay"))
    IN  Format(camp_name) \o "|" \o Format(geo) \o "|" \o Format(lang) \o "|"
          \o Format(brand) \o "|" \o Format(title) \o "|" \o Format(objective)
          \o "|" \o Format(channel)

build_placement_taxonomy(tkt, cmp) ==
    LET camp_name == Get(cmp, "campaign_name", PyStr("UNKNOWN_CAMP"))
        geo       == Get(cmp, "targeting_geo", Get(tkt, "targeting_geo", PyStr("UNKNOWN_GEO")))
        lang      == Get(cmp, "language", PyStr("ENG"))
        brand     == Get(cmp, "brand_code", Get(tkt, "brand", PyStr("UNKNOWN_BRAND")))
        title     == Get(cmp, "title_name", PyStr("UNKNOWN_TITLE"))
        objective == Get(cmp, "campaign_objective", PyStr("Acq"))
        channel   == Get(cmp, "channel_mapped", PyStr("ProgDisplay"))
    IN  Format(camp_name) \o "|" \o Format(geo) \o "|" \o Format(lang) \o "|"
          \o Format(brand) \o "|" \o Format(title) \o "|" \o Format(objective)
          \o "|" \o Format(channel)

\* mutant: the insertion order is addressed to "CM360" like the two payloads before it
InsertionOrderOnCM360(tkt, cmp, platform, now) ==
    LET camp_id == Get(tkt, "campaign_id", PyStr("CMP-UNKNOWN"))
        tax     == build_placement_taxonomy(tkt, cmp)
    IN  << TraffickingPayload(camp_id, PyStr("CM360"), "CREATE_CAMPAIGN_SHELL",
               [name |-> Get(cmp, "campaign_name", PyStr("New Campaign")),
                start_date |-> GetOrNone(cmp, "start_date")], now[1]),
           TraffickingPayload(camp_id, PyStr("CM360"), "CREATE_PLACEMENT",
               [placement_name |-> PyStr(tax), site |-> platform], now[2]),
           TraffickingPayload(camp_id, PyStr("CM360"), "CREATE_INSERTION_ORDER",
               [budget |-> Get(cmp, "budget_usd", PyInt(0)),
                targeting |-> GetOrNone(cmp, "audience_detailed")], now[3]) >>

\* now: the readings of datetime.now(), one per payload constructed, in order
_handle_new_campaign_setup(tkt, cmp, platform, now) ==
    LET camp_id == Get(tkt, "campaign_id", PyStr("CMP-UNKNOWN"))
        tax     == build_placement_taxonomy(tkt, cmp)
    IN  << TraffickingPayload(camp_id, PyStr("CM360"), "CREATE_CAMPAIGN_SHELL",
               [name |-> Get(cmp, "campaign_name", PyStr("New Campaign")),
                start_date |-> GetOrNone(cmp, "start_date")], now[1]),
           TraffickingPayload(camp_id, PyStr("CM360"), "CREATE_PLACEMENT",
               [placement_name |-> PyStr(tax), site |-> platform], now[2]),
           TraffickingPayload(camp_id, platform, "CREATE_INSERTION_ORDER",
               [budget |-> Get(cmp, "budget_usd", PyInt(0)),
                targeting |-> GetOrNone(cmp, "audience_detailed")], now[3]) >>

\* mutant: the rotation is addressed to the ticket's platform
RotationOnTicketPlatform(tkt, cmp, platform, now) ==
    LET camp_id == Get(tkt, "campaign_id", PyStr("CMP-UNKNOWN"))
    IN  << TraffickingPayload(camp_id, platform, "ROTATE_CREATIVES",
               [placements |-> PyList(<<PyStr(build_placement_taxonomy(tkt, cmp))>>),
                new_assets |-> PyList(<<PyStr("asset_1.mp4"), PyStr("asset_2.jpg")>>)],
               now[1]) >>

_handle_creative_rotation(tkt, cmp, platform, now) ==
    LET camp_id == Get(tkt, "campaign_id", PyStr("CMP-UNKNOWN"))
    IN  << TraffickingPayload(camp_id, PyStr("CM360"), "ROTATE_CREATIVES",
               [placements |-> PyList(<<PyStr(build_placement_taxonomy(tkt, cmp))>>),
                new_assets |-> PyList(<<PyStr("asset_1.mp4"), PyStr("asset_2.jpg")>>)],
               now[1]) >>

\* mutant: the campaign id is looked up in the campaign, which does not hold it
CampaignIdFromCampaign(tkt, cmp, platform, now) ==
    LET camp_id == Get(cmp, "campaign_id", PyStr("CMP-UNKNOWN"))
    IN  << TraffickingPayload(camp_id, platform, "UPDATE_BUDGET",
               [new_budget |-> Get(cmp, "budget_usd", PyInt(0))], now[1]) >>

_handle_budget_change(tkt, cmp, platform, now) ==
    LET camp_id == Get(tkt, "campaign_id", PyStr("CMP-UNKNOWN"))
    IN  << TraffickingPayload(camp_id, platform, "UPDATE_BUDGET",
               [new_budget |-> Get(cmp, "budget_usd", PyInt(0))], now[1]) >>

_handle_new_line_item(tkt, cmp, platform, now) ==
    LET camp_id == Get(tkt, "campaign_id", PyStr("CMP-UNKNOWN"))
    IN  << TraffickingPayload(camp_id, platform, "CREATE_LINE_ITEM",
               [targeting |-> GetOrNone(cmp, "audience_detailed")], now[1]) >>

_handle_targeting_update(tkt, cmp, platform, now) ==
    LET camp_id == Get(tkt, "campaign_id", PyStr("CMP-UNKNOWN"))
    IN  << TraffickingPayload(camp_id, platform, "UPDATE_TARGETING",
               [new_targeting |-> GetOrNone(cmp, "audience_detailed"),
                geo |-> GetOrNone(cmp, "targeting_geo")], now[1]) >>

\* mutant: the floodlight tag is addressed to the ticket's platform
TagOnTicketPlatform(tkt, cmp, platform, now) ==
    LET camp_id == Get(tkt, "campaign_id", PyStr("CMP-UNKNOWN"))
    IN  << TraffickingPayload(camp_id, platform, "CREATE_FLOODLIGHT_TAG",
               [conversion_type |-> PyStr("Subscription"),
                counting_method |-> PyStr("STANDARD")], now[1]) >>

_handle_tag_implementation(tkt, cmp, platform, now) ==
    LET camp_id == Get(tkt, "campaign_id", PyStr("CMP-UNKNOWN"))
    IN  << TraffickingPayload(camp_id, PyStr("CM360"), "CREATE_FLOODLIGHT_TAG",
               [conversion_type |-> PyStr("Subscription"),
                counting_method |-> PyStr("STANDARD")], now[1]) >>

\* the exception process_ticket raises: `"New Campaign" in req_type` needs a
\* container on its right-hand side
process_ticket_raises(ticket_fields, campaign_fields) ==
    LET req_type == Get(ticket_fields, "request_type", PyStr(""))
    IN  IF req_type.t \in {"none", "int"} THEN "TypeError" ELSE "none"

\* mutant: "Budget Change" is matched as a substring, like the first two routes
BudgetChangeBySubstring(ticket_fields, campaign_fields, now) ==
    LET req_type == Get(ticket_fields, "request_type", PyStr("")).v
        platform == Get(ticket_fields, "platform", PyStr("DV360"))
    IN  IF Contains("New Campaign", req_type) \/ Contains("New Placements", req_type)
        THEN _handle_new_campaign_setup(ticket_fields, campaign_fields, platform, now)
        ELSE IF Contains("Creative Rotation", req_type) \/ Contains("Retrafficking", req_type)
        THEN _handle_creative_rotation(ticket_fields, campaign_fields, platform, now)
        ELSE IF Contains("Budget Change", req_type)
        THEN _handle_budget_change(ticket_fields, campaign_fields, platform, now)
        ELSE IF req_type = "New Line Item"
        THEN _handle_new_line_item(ticket_fields, campaign_fields, platform, now)
        ELSE IF req_type = "Targeting Update"
        THEN _handle_targeting_update(ticket_fields, campaign_fields, platform, now)
        ELSE IF req_type = "Site Tagging" \/ req_type = "Kochava"
        THEN _handle_tag_implementation(ticket_fields, campaign_fields, platform, now)
        ELSE << >>

\* mutant: the creative-rotation route is tried before the new-campaign route
RotationRouteFirst(ticket_fields, campaign_fields, now) ==
    LET req_type == Get(ticket_fields, "request_type", PyStr("")).v
        platform == Get(ticket_fields, "platform", PyStr("DV360"))
    IN  IF Contains("Creative Rotation", req_type) \/ Contains("Retrafficking", req_type)
        THEN _handle_creative_rotation(ticket_fields, campaign_fields, platform, now)
        ELSE IF Contains("New Campaign", req_type) \/ Contains("New Placements", req_type)
        THEN _handle_new_campaign_setup(ticket_fields, campaign_fields, platform, now)
        ELSE IF req_type = "Budget Change"
        THEN _handle_budget_change(ticket_fields, campaign_fields, platform, now)
        ELSE IF req_type = "New Line Item"
        THEN _handle_new_line_item(ticket_fields, campaign_fields, platform, now)
        ELSE IF req_type = "Targeting Update"
        THEN _handle_targeting_update(ticket_fields, campaign_fields, platform, now)
        ELSE IF req_type = "Site Tagging" \/ req_type = "Kochava"
        THEN _handle_tag_implementation(ticket_fields, campaign_fields, platform, now)
        ELSE << >>

\* the value process_ticket returns when it does not raise
process_ticket(ticket_fields, campaign_fields, now) ==
    LET req_type == Get(ticket_fields, "request_type", PyStr("")).v
        platform == Get(ticket_fields, "platform", PyStr("DV360"))
    IN  IF Contains("New Campaign", req_type) \/ Contains("New Placements", req_type)
        THEN _handle_new_campaign_setup(ticket_fields, campaign_fields, platform, now)
        ELSE IF Contains("Creative Rotation", req_type) \/ Contains("Retrafficking", req_type)
        THEN _handle_creative_rotation(ticket_fields, campaign_fields, platform, now)
        ELSE IF req_type = "Budget Change"
        THEN _handle_budget_change(ticket_fields, campaign_fields, platform, now)
        ELSE IF req_type = "New Line Item"
        THEN _handle_new_line_item(ticket_fields, campaign_fields, platform, now)
        ELSE IF req_type = "Targeting Update"
        THEN _handle_targeting_update(ticket_fields, campaign_fields, platform, now)
        ELSE IF req_type = "Site Tagging" \/ req_type = "Kochava"
        THEN _handle_tag_implementation(ticket_fields, campaign_fields, platform, now)
        ELSE << >>

----------------------------------------------------------------------------
(* orchestrator.py: the mappings run_pipeline hands to the engine. *)

\* the ticket mapping built from the fields of a datastore record
tkt_mapped(fields) ==
    [request_type  |-> GetOrNone(fields, "request_type"),
     platform      |-> Get(fields, "platform", PyStr("DV360")),
     targeting_geo |-> GetOrNone(fields, "targeting_geo"),
     brand         |-> GetOrNone(fields, "brand"),
     campaign_id   |-> GetOrNone(fields, "campaign_id")]

\* the campaign mapping built from the fields of the campaign record, the
\* demo campaign standing in for an empty one
cmp_mapped(campaign_fields) ==
    LET cf == IF DOMAIN campaign_fields = {}
              THEN [campaign_name |-> PyStr("Demo Campaign"), targeting_geo |-> PyStr("US"),
                    budget_usd |-> PyInt(1000)]
              ELSE campaign_fields
    IN  [campaign_name      |-> Get(cf, "campaign_name", PyStr("DEMO_CAMP")),
         targeting_geo      |-> Get(cf, "targeting_geo", PyStr("US")),
         brand_code         |-> Get(cf, "brand_code", PyStr("DIS")),
         title_name         |-> Get(cf, "title_name", PyStr("Loki")),
         campaign_objective |-> Get(cf, "campaign_objective", PyStr("Acq")),
         channel_mapped     |-> Get(cf, "channel_mapped", PyStr("ProgDisplay")),
         start_date         |-> Get(cf, "start_date", PyStr("2026-03-01")),
         budget_usd         |-> Get(cf, "budget_usd", PyInt(10000)),
         audience_detailed  |-> Get(cf, "audience_detailed", PyStr("A18-34"))]

----------------------------------------------------------------------------
(* qa_engine.py.  A payload is an object the checks read attributes of: a  *)
(* TraffickingPayload has the attributes of the dataclass, any other       *)
(* object (a plain dict, say) has no attribute `action`.  Each check is    *)
(* two operators: the exception it raises ("none" when it returns) and the *)
(* value it returns when it does not raise.                                *)

\* p.action raises AttributeError for some p of the comprehension
NoActionAttr(ps) == \E i \in 1..Len(ps) : "action" \notin DOMAIN ps[i]

check_spec_compliance(ps, cmp) ==
    [check |-> "Spec Compliance",
     result |-> IF Len(ps) > 0 THEN "Pass" ELSE "Fail",
     details |-> "Creative matches spec."]

check_tracking_raises(ps, cmp) ==
    IF NoActionAttr(ps) THEN "AttributeError" ELSE "none"

check_tracking(ps, cmp) ==
    [check |-> "Tracking", result |-> "Pass", details |-> "Tracking tags configured."]

\* mutant: the geo is tested with `is None`, so an empty geo passes
GeoTestedForNone(ps, cmp) ==
    LET geo == GetOrNone(cmp, "targeting_geo")
    IN  IF geo = PyNone
        THEN [check |-> "Targeting", result |-> "Fail", details |-> "Missing geo targeting."]
        ELSE [check |-> "Targeting", result |-> "Pass",
              details |-> "Geo targeting found: " \o Format(geo)]

check_targeting(ps, cmp) ==
    LET geo == GetOrNone(cmp, "targeting_geo")
    IN  IF ~Truthy(geo)
        THEN [check |-> "Targeting", result |-> "Fail", details |-> "Missing geo targeting."]
        ELSE [check |-> "Targeting", result |-> "Pass",
              details |-> "Geo targeting found: " \o Format(geo)]

check_frequency_cap_raises(ps, cmp) ==
    IF Get(cmp, "campaign_name", PyStr("")).t \in {"none", "int"} THEN "TypeError" ELSE "none"

check_frequency_cap(ps, cmp) ==
    LET camp_name == Get(cmp, "campaign_name", PyStr("")).v
    IN  IF Contains("BES", camp_name) \/ Contains("Sponsorship", camp_name)
        THEN [check |-> "Frequency Cap", result |-> "Pass",
              details |-> "Frequency cap set for Sponsorship."]
        ELSE [check |-> "Frequency Cap", result |-> "Pass",
              details |-> "Frequency cap standard."]

check_content_exclusions_raises(ps, cmp) ==
    IF Get(cmp, "campaign_name", PyStr("")).t \in {"none", "int"} THEN "TypeError" ELSE "none"

check_content_exclusions(ps, cmp) ==
    LET camp_name == Get(cmp, "campaign_name", PyStr("")).v
    IN  IF Contains("BES", camp_name) \/ Contains("Sponsorship", camp_name)
        THEN [check |-> "Content Exclusions", result |-> "Needs Review",
              details |-> "Sponsorship requires S&P review."]
        ELSE [check |-> "Content Exclusions", result |-> "Pass",
              details |-> "Standard exclusions applied."]

check_landing_page_raises(ps, cmp) ==
    IF Get(cmp, "landing_page", PyStr("https://disneyplus.com")).t \in {"none", "int"}
    THEN "AttributeError" ELSE "none"

check_landing_page(ps, cmp) ==
    LET url == Get(cmp, "landing_page", PyStr("https://disneyplus.com")).v
    IN  IF ~StartsWith(url, "https://")
        THEN [check |-> "Landing Page", result |-> "Fail",
              details |-> "Non-HTTPS URL provided: " \o url]
        ELSE [check |-> "Landing Page", result |-> "Pass",
              details |-> "Click-through URLs act recursively."]

\* mutant: a name needs a pipe after each of its seven fields
SevenPipes(placement_payloads) ==
    LET name(p) == Get(p.payload, "placement_name", PyStr(""))
        stops(p) == name(p).t \in {"none", "int"} \/ Count(name(p).v, "|") < 7
        S == {i \in 1..Len(placement_payloads) : stops(placement_payloads[i])}
    IN  IF S = {} THEN 0 ELSE CHOOSE i \in S : \A j \in S : i <= j

\* the loop of check_taxonomy over the CREATE_PLACEMENT payloads: the index
\* of the first one whose name has no count() or has fewer than 6 pipes,
\* 0 when the loop runs to its end
TaxonomyStop(placement_payloads) ==
    LET name(p) == Get(p.payload, "placement_name", PyStr(""))
        stops(p) == name(p).t \in {"none", "int"} \/ Count(name(p).v, "|") < 6
        S == {i \in 1..Len(placement_payloads) : stops(placement_payloads[i])}
    IN  IF S = {} THEN 0 ELSE CHOOSE i \in S : \A j \in S : i <= j

check_taxonomy_raises(ps, cmp) ==
    IF NoActionAttr(ps) THEN "AttributeError"
    ELSE LET placement_payloads == SelectSeq(ps, LAMBDA p : p.action = "CREATE_PLACEMENT")
             i == TaxonomyStop(placement_payloads)
         IN  IF i > 0 /\ Get(placement_payloads[i].payload, "placement_name",
                                PyStr("")).t \in {"none", "int"}
             THEN "AttributeError" ELSE "none"

check_taxonomy(ps, cmp) ==
    LET placement_payloads == SelectSeq(ps, LAMBDA p : p.action = "CREATE_PLACEMENT")
    IN  IF TaxonomyStop(placement_payloads) > 0
        THEN [check |-> "Taxonomy Validation", result |-> "Fail",
              details |-> "Placement name does not follow pipe-delimited convention."]
        ELSE [check |-> "Taxonomy Validation", result |-> "Pass",
              details |-> "Taxonomy valid."]

check_floodlight_tags(ps, cmp) ==
    [check |-> "Floodlight Tags", result |-> "Pass",
     details |-> "Conversion tags correctly assigned."]

\* the exception of the first check, in list order, that raises
run_all_checks_raises(ps, cmp) ==
    IF Len(ps) = 0 THEN "none"
    ELSE LET excs == << check_tracking_raises(ps, cmp),
                        check_frequency_cap_raises(ps, cmp),
                        check_content_exclusions_raises(ps, cmp),
                        check_landing_page_raises(ps, cmp),
                        check_taxonomy_raises(ps, cmp) >>
             R == {i \in 1..Len(excs) : excs[i] # "none"}
         IN  IF R = {} THEN "none" ELSE excs[CHOOSE i \in R : \A j \in R : i <= j]

\* mutant: no short-circuit, the eight checks run on an empty sequence too
NoShortCircuit(ps, cmp) ==
    << check_spec_compliance(ps, cmp),
       check_tracking(ps, cmp),
       check_targeting(ps, cmp),
       check_frequency_cap(ps, cmp),
       check_content_exclusions(ps, cmp),
       check_landing_page(ps, cmp),
       check_taxonomy(ps, cmp),
       check_floodlight_tags(ps, cmp) >>

\* the value run_all_checks returns when no check raises
run_all_checks(ps, cmp) ==
    IF Len(ps) = 0
    THEN << [check |-> "Spec Compliance", result |-> "Fail",
             details |-> "No payloads to QA."] >>
    ELSE << check_spec_compliance(ps, cmp),
            check_tracking(ps, cmp),
            check_targeting(ps, cmp),
            check_frequency_cap(ps, cmp),
            check_content_exclusions(ps, cmp),
            check_landing_page(ps, cmp),
            check_taxonomy(ps, cmp),
            check_floodlight_tags(ps, cmp) >>

----------------------------------------------------------------------------
(* The inputs.  A dict is drawn as a record whose fields are values or     *)
(* Absent; Dict drops the absent keys.                                     *)

Absent == [t |-> "absent"]

Dict(r) == [k \in {x \in DOMAIN r : r[x].t # "absent"} |-> r[k]]

\* request_type values: the nine routed types, other spellings, longer
\* strings, strings matching two routes, no value
RequestTypes ==
    { PyStr("New Campaign"), PyStr("New Placements"), PyStr("Creative Rotation"),
      PyStr("Retrafficking"), PyStr("Budget Change"), PyStr("New Line Item"),
      PyStr("Targeting Update"), PyStr("Site Tagging"), PyStr("Kochava"),
      PyStr("new campaign"), PyStr("Budget Change Request"), PyStr("Urgent: New Campaign"),
      PyStr("New Campaign + Creative Rotation"), PyStr("Retrafficking (Kochava)"),
      PyStr("site tagging"), PyStr("Reporting"), PyStr(""), PyNone, Absent }

RouterTickets ==
    { Dict(r) : r \in [request_type : RequestTypes,
                       platform : {PyStr("DV360"), PyStr("Meta"), PyStr("CM360"), Absent},
                       campaign_id : {PyStr("CMP-9999"), Absent}] }

RouterCampaigns ==
    { << >>,
      [campaign_name |-> PyStr("Test_Campaign")],
      [campaign_name |-> PyStr("DBUN_Bundle_Acq_US"), start_date |-> PyStr("2026-03-01"),
       budget_usd |-> PyInt(50000), audience_detailed |-> PyStr("A18-49")] }

\* the fields of the ticket records run_pipeline reads from the datastore
PipelineFields ==
    { Dict(r) : r \in [request_type : {PyStr("New Campaign"), PyStr("Budget Change"),
                                       PyStr("Reporting"), Absent},
                       platform : {PyStr("Meta"), Absent},
                       brand : {PyStr("MARVEL"), Absent},
                       campaign_id : {PyList(<<PyStr("recCMP1")>>), Absent}] }

TaxonomyTickets ==
    { Dict(r) : r \in [request_type : {PyStr("New Campaign")},
                       platform : {PyStr("DV360")},
                       targeting_geo : {PyStr("CA"), Absent},
                       brand : {PyStr("MARVEL"), Absent}] }

TaxonomyCampaigns ==
    { Dict(r) : r \in [campaign_name : {PyStr("DBUN_Bundle_Acq_US_ProgDisplay"),
                                        PyStr("A|B"), PyNone, Absent},
                       targeting_geo : {PyStr("US"), Absent},
                       language : {PyStr("SPA"), Absent},
                       brand_code : {PyStr("DBUN"), Absent},
                       title_name : {PyStr("Bundle"), Absent},
                       campaign_objective : {PyStr("Ret"), Absent},
                       channel_mapped : {PyStr("YouTube"), Absent}] }

QACampaigns ==
    { Dict(r) : r \in [campaign_name : {PyStr("Test"), PyStr("ESP_Sports_Sponsorship_US"),
                                        PyStr("BES_Launch"), PyStr("bes sponsorship"),
                                        PyNone, Absent},
                       targeting_geo : {PyStr("US"), PyStr(""), PyNone, Absent},
                       landing_page : {PyStr("https://disney.com"), PyStr("http://disney.com"),
                                       PyNone, Absent}] }

GoodName == "DBUN_Bundle|US|ENG|DBUN|Bundle|Acq|ProgDisplay"

\* the objects handed to run_all_checks: payloads as the tests build them,
\* placements with and without a conforming name, and a plain dict
QAPayloads ==
    { TraffickingPayload(PyStr("CMP-1"), PyStr("CM360"), "CREATE", << >>, 0),
      TraffickingPayload(PyStr("CMP-1"), PyStr("CM360"), "CREATE_PLACEMENT",
          [placement_name |-> PyStr(GoodName), site |-> PyStr("DV360")], 0),
      TraffickingPayload(PyStr("CMP-1"), PyStr("CM360"), "CREATE_PLACEMENT",
          [placement_name |-> PyStr("DBUN|US|ENG|DBUN|Bundle|Acq"), site |-> PyStr("DV360")], 0),
      TraffickingPayload(PyStr("CMP-1"), PyStr("CM360"), "CREATE_PLACEMENT",
          [site |-> PyStr("DV360")], 0),
      TraffickingPayload(PyStr("CMP-1"), PyStr("CM360"), "CREATE_PLACEMENT",
          [placement_name |-> PyNone, site |-> PyStr("DV360")], 0),
      TraffickingPayload(PyStr("CMP-1"), PyStr("CM360"), "ROTATE_CREATIVES",
          [placement_name |-> PyStr("test_Global_test")], 0),
      [site |-> PyStr("DV360"), placement_name |-> PyStr("test_Global_test")] }

RECURSIVE SeqsUpTo(_, _)
\* the sequences over S of length at most n
SeqsUpTo(S, n) ==
    IF n = 0 THEN { << >> }
    ELSE LET shorter == SeqsUpTo(S, n - 1)
         IN  shorter \cup { Append(q, x) : q \in {r \in shorter : Len(r) = n - 1}, x \in S }

Platforms == {"CM360", "Yahoo DSP", "Amazon DSP", "DV360", "Meta", "cm360"}

Channels == {"ProgAudio", "ProgCTV", "ProgNative", "YouTube", "ProgDisplay", "Social", "youtube"}

----------------------------------------------------------------------------
(* The calls. *)

NoEve == [platform |-> "", channel_mapped |-> "", version |-> ""]

NoVerdict == [check |-> "", result |-> "", details |-> ""]

\* run_pipeline is not running
OrchestratorIdle ==
    /\ airtable = << >>
    /\ alerter = << >>
    /\ tickets = << >>
    /\ index = 0
    /\ written = 0
    /\ failures = << >>
    /\ calls = << >>

\* the job runner is not in use
JobRunnerIdle ==
    /\ workspace = << >>
    /\ config = << >>
    /\ elapsed = 0
    /\ polled = "unbound"
    /\ returned = << >>

Outputs ==
    /\ pc = "start"
    /\ clock = 0
    /\ taxonomy = ""
    /\ results = << >>
    /\ verdict = NoVerdict
    /\ previous = << >>
    /\ raised = "none"

Init ==
    /\ Outputs
    /\ OrchestratorIdle
    /\ JobRunnerIdle
    /\ \/ /\ ticket \in RouterTickets
          /\ campaign \in RouterCampaigns
          /\ payloads = << >>
          /\ eve = NoEve
       \/ /\ ticket \in {tkt_mapped(f) : f \in PipelineFields}
          /\ campaign \in {cmp_mapped(c) : c \in RouterCampaigns}
          /\ payloads = << >>
          /\ eve = NoEve
       \/ /\ ticket \in TaxonomyTickets
          /\ campaign \in TaxonomyCampaigns
          /\ payloads = << >>
          /\ eve = NoEve
       \/ /\ ticket = << >>
          /\ campaign \in QACampaigns
          /\ payloads \in SeqsUpTo(QAPayloads, MaxPayloads)
          /\ eve = NoEve
       \/ /\ ticket = << >>
          /\ campaign = << >>
          /\ payloads = << >>
          /\ eve \in [platform : Platforms, channel_mapped : Channels, version : {""}]

\* the readings of the n next calls of datetime.now(): the clock does not run backwards
Readings(n) ==
    { now \in [1..n -> clock..MaxClock] : \A i \in 1..(n - 1) : now[i] <= now[i + 1] }

\* engine.process_ticket(ticket, campaign)
ProcessTicket ==
    /\ pc = "start"
    /\ pc' = "routed"
    /\ IF process_ticket_raises(ticket, campaign) # "none"
       THEN /\ raised' = process_ticket_raises(ticket, campaign)
            /\ UNCHANGED <<payloads, clock>>
       ELSE \E now \in Readings(3) :
               LET ps == process_ticket(ticket, campaign, now)
               IN  /\ payloads' = ps
                   /\ clock' = IF Len(ps) = 0 THEN clock ELSE ps[Len(ps)].created_at
                   /\ raised' = "none"
    /\ UNCHANGED <<ticket, campaign, taxonomy, eve, results, verdict, previous>>
    /\ UNCHANGED <<orchestrator_vars, job_vars>>

\* engine.process_ticket(ticket, campaign) a second time, with the same arguments
ProcessTicketAgain ==
    /\ pc = "routed"
    /\ raised = "none"
    /\ pc' = "routed_again"
    /\ previous' = payloads
    /\ \E now \in Readings(3) :
          LET ps == process_ticket(ticket, campaign, now)
          IN  /\ payloads' = ps
              /\ clock' = IF Len(ps) = 0 THEN clock ELSE ps[Len(ps)].created_at
    /\ UNCHANGED <<ticket, campaign, taxonomy, eve, results, verdict, raised>>
    /\ UNCHANGED <<orchestrator_vars, job_vars>>

\* engine.build_placement_taxonomy(ticket, campaign)
BuildPlacementTaxonomy ==
    /\ pc = "start"
    /\ pc' = "taxonomy"
    /\ taxonomy' = build_placement_taxonomy(ticket, campaign)
    /\ UNCHANGED <<ticket, campaign, clock, payloads, eve, results, verdict, previous, raised>>
    /\ UNCHANGED <<orchestrator_vars, job_vars>>

\* engine.get_eve_version(platform, channel_mapped)
GetEveVersion ==
    /\ pc = "start"
    /\ pc' = "eve"
    /\ eve' = [eve EXCEPT !.version = get_eve_version(eve.platform, eve.channel_mapped)]
    /\ UNCHANGED <<ticket, campaign, clock, payloads, taxonomy, results, verdict, previous,
                   raised>>
    /\ UNCHANGED <<orchestrator_vars, job_vars>>

\* mutant: run_all_checks marks the payloads it has looked at
RunAllChecksMarksPayloads ==
    /\ pc \in {"start", "routed"}
    /\ raised = "none"
    /\ pc' = "checked"
    /\ IF run_all_checks_raises(payloads, campaign) # "none"
       THEN /\ raised' = run_all_checks_raises(payloads, campaign)
            /\ UNCHANGED <<results, payloads>>
       ELSE /\ results' = run_all_checks(payloads, campaign)
            /\ payloads' = [i \in 1..Len(payloads) |->
                               [payloads[i] EXCEPT !.status = "Checked"]]
            /\ raised' = "none"
    /\ UNCHANGED <<ticket, campaign, clock, taxonomy, eve, verdict, previous>>
    /\ UNCHANGED <<orchestrator_vars, job_vars>>

\* qa.run_all_checks(payloads, campaign), on the payloads given or on those
\* process_ticket returned
RunAllChecks ==
    /\ pc \in {"start", "routed"}
    /\ raised = "none"
    /\ pc' = "checked"
    /\ IF run_all_checks_raises(payloads, campaign) # "none"
       THEN /\ raised' = run_all_checks_raises(payloads, campaign)
            /\ UNCHANGED results
       ELSE /\ results' = run_all_checks(payloads, campaign)
            /\ raised' = "none"
    /\ UNCHANGED <<ticket, campaign, clock, payloads, taxonomy, eve, verdict, previous>>
    /\ UNCHANGED <<orchestrator_vars, job_vars>>

\* qa.run_all_checks(payloads, campaign) a second time, with the same arguments
RunAllChecksAgain ==
    /\ pc = "checked"
    /\ raised = "none"
    /\ pc' = "checked_again"
    /\ previous' = results
    /\ results' = run_all_checks(payloads, campaign)
    /\ UNCHANGED <<ticket, campaign, clock, payloads, taxonomy, eve, verdict, raised>>
    /\ UNCHANGED <<orchestrator_vars, job_vars>>

\* a call of one check on its own: exc is the exception it raises, value
\* what it returns when it raises none
CallCheck(name, exc, value) ==
    /\ pc = "start"
    /\ pc' = name
    /\ IF exc # "none"
       THEN /\ raised' = exc
            /\ UNCHANGED verdict
       ELSE /\ verdict' = value
            /\ raised' = "none"
    /\ UNCHANGED <<ticket, campaign, clock, payloads, taxonomy, eve, results, previous>>
    /\ UNCHANGED <<orchestrator_vars, job_vars>>

\* qa.check_spec_compliance(payloads, campaign)
CheckSpecCompliance ==
    CallCheck("check_spec_compliance", "none", check_spec_compliance(payloads, campaign))

\* qa.check_tracking(payloads, campaign)
CheckTracking ==
    CallCheck("check_tracking", check_tracking_raises(payloads, campaign),
              check_tracking(payloads, campaign))

\* qa.check_targeting(payloads, campaign)
CheckTargeting ==
    CallCheck("check_targeting", "none", check_targeting(payloads, campaign))

\* qa.check_frequency_cap(payloads, campaign)
CheckFrequencyCap ==
    CallCheck("check_frequency_cap", check_frequency_cap_raises(payloads, campaign),
              check_frequency_cap(payloads, campaign))

\* qa.check_content_exclusions(payloads, campaign)
CheckContentExclusions ==
    CallCheck("check_content_exclusions", check_content_exclusions_raises(payloads, campaign),
              check_content_exclusions(payloads, campaign))

\* qa.check_landing_page(payloads, campaign)
CheckLandingPage ==
    CallCheck("check_landing_page", check_landing_page_raises(payloads, campaign),
              check_landing_page(payloads, campaign))

\* qa.check_taxonomy(payloads, campaign)
CheckTaxonomy ==
    CallCheck("check_taxonomy", check_taxonomy_raises(payloads, campaign),
              check_taxonomy(payloads, campaign))

\* qa.check_floodlight_tags(payloads, campaign)
CheckFloodlightTags ==
    CallCheck("check_floodlight_tags", "none", check_floodlight_tags(payloads, campaign))

Next ==
    \/ ProcessTicket
    \/ ProcessTicketAgain
    \/ BuildPlacementTaxonomy
    \/ GetEveVersion
    \/ RunAllChecks
    \/ RunAllChecksAgain
    \/ CheckSpecCompliance
    \/ CheckTracking
    \/ CheckTargeting
    \/ CheckFrequencyCap
    \/ CheckContentExclusions
    \/ CheckLandingPage
    \/ CheckTaxonomy
    \/ CheckFloodlightTags

Spec == Init /\ [][Next]_vars

----------------------------------------------------------------------------
(* The router's contract. *)

\* the ticket's request_type is a str
HasRequestType == "request_type" \in DOMAIN ticket /\ ticket["request_type"].t = "str"

\* the ticket's request_type has sub as a substring
RequestTypeContains(sub) == HasRequestType /\ Contains(sub, ticket["request_type"].v)

RequestTypeIs(name) == HasRequestType /\ ticket["request_type"].v = name

IsNewCampaign ==
    RequestTypeContains("New Campaign") \/ RequestTypeContains("New Placements")

IsCreativeRotation ==
    /\ RequestTypeContains("Creative Rotation") \/ RequestTypeContains("Retrafficking")
    /\ ~IsNewCampaign

\* the ticket's platform, the fallback of process_ticket when it has none
TicketPlatform == IF "platform" \in DOMAIN ticket THEN ticket["platform"] ELSE PyStr("DV360")

Actions(ps) == [i \in 1..Len(ps) |-> ps[i].action]

\* C1: a request_type containing "New Campaign" or "New Placements" yields
\* exactly the three payloads CREATE_CAMPAIGN_SHELL, CREATE_PLACEMENT,
\* CREATE_INSERTION_ORDER in this order; the first two are for "CM360", the
\* third for the ticket's platform, and the third's budget is the campaign's
\* budget, 0 when the campaign has none.
C1_NewCampaignPayloads ==
    (pc = "routed" /\ IsNewCampaign) =>
        /\ raised = "none"
        /\ Actions(payloads) =
               <<"CREATE_CAMPAIGN_SHELL", "CREATE_PLACEMENT", "CREATE_INSERTION_ORDER">>
        /\ payloads[1].platform = PyStr("CM360")
        /\ payloads[2].platform = PyStr("CM360")
        /\ payloads[3].platform = TicketPlatform
        /\ payloads[3].payload.budget =
               (IF "budget_usd" \in DOMAIN campaign THEN campaign["budget_usd"] ELSE PyInt(0))

C1_Witness ==
    /\ pc = "routed"
    /\ RequestTypeIs("Urgent: New Campaign")
    /\ TicketPlatform = PyStr("Meta")
    /\ Len(payloads) = 3
    /\ payloads[3].platform = PyStr("Meta")
    /\ payloads[3].payload.budget = PyInt(50000)

\* C2: a request_type containing "Creative Rotation" or "Retrafficking", and
\* neither "New Campaign" nor "New Placements", yields exactly one payload,
\* ROTATE_CREATIVES for "CM360" whatever the ticket's platform, whose payload
\* has placements = [taxonomy string] and a new_assets entry.
C2_CreativeRotationPayload ==
    (pc = "routed" /\ IsCreativeRotation) =>
        /\ raised = "none"
        /\ Actions(payloads) = <<"ROTATE_CREATIVES">>
        /\ payloads[1].platform = PyStr("CM360")
        /\ payloads[1].payload.placements =
               PyList(<<PyStr(build_placement_taxonomy(ticket, campaign))>>)
        /\ "new_assets" \in DOMAIN payloads[1].payload

C2_Witness ==
    /\ pc = "routed"
    /\ RequestTypeIs("Retrafficking (Kochava)")
    /\ TicketPlatform = PyStr("Meta")
    /\ Len(payloads) = 1
    /\ payloads[1].platform = PyStr("CM360")
    /\ payloads[1].payload.placements =
           PyList(<<PyStr("Test_Campaign|UNKNOWN_GEO|ENG|UNKNOWN_BRAND|UNKNOWN_TITLE|Acq|ProgDisplay")>>)

\* C3: the request types "Budget Change", "New Line Item", "Targeting Update"
\* yield exactly one payload UPDATE_BUDGET, CREATE_LINE_ITEM, UPDATE_TARGETING
\* for the ticket's platform; "Site Tagging" and "Kochava" yield exactly one
\* payload CREATE_FLOODLIGHT_TAG for "CM360" with conversion_type
\* "Subscription" and counting_method "STANDARD", whatever the platform.
C3_ExactTypePayloads ==
    (pc = "routed") =>
        /\ RequestTypeIs("Budget Change") =>
               /\ raised = "none"
               /\ Actions(payloads) = <<"UPDATE_BUDGET">>
               /\ payloads[1].platform = TicketPlatform
        /\ RequestTypeIs("New Line Item") =>
               /\ raised = "none"
               /\ Actions(payloads) = <<"CREATE_LINE_ITEM">>
               /\ payloads[1].platform = TicketPlatform
        /\ RequestTypeIs("Targeting Update") =>
               /\ raised = "none"
               /\ Actions(payloads) = <<"UPDATE_TARGETING">>
               /\ payloads[1].platform = TicketPlatform
        /\ (RequestTypeIs("Site Tagging") \/ RequestTypeIs("Kochava")) =>
               /\ raised = "none"
               /\ Actions(payloads) = <<"CREATE_FLOODLIGHT_TAG">>
               /\ payloads[1].platform = PyStr("CM360")
               /\ payloads[1].payload.conversion_type = PyStr("Subscription")
               /\ payloads[1].payload.counting_method = PyStr("STANDARD")

C3_Witness ==
    /\ pc = "routed"
    /\ RequestTypeIs("Kochava")
    /\ TicketPlatform = PyStr("Meta")
    /\ Len(payloads) = 1
    /\ payloads[1].action = "CREATE_FLOODLIGHT_TAG"
    /\ payloads[1].platform = PyStr("CM360")

\* the request_type is a str (or is absent, which process_ticket reads as "")
\* that no route matches
IsUnrouted ==
    /\ "request_type" \in DOMAIN ticket => ticket["request_type"].t = "str"
    /\ \A sub \in {"New Campaign", "New Placements", "Creative Rotation", "Retrafficking"} :
           ~RequestTypeContains(sub)
    /\ \A name \in {"Budget Change", "New Line Item", "Targeting Update",
                     "Site Tagging", "Kochava"} : ~RequestTypeIs(name)

\* C4: a request_type that contains none of "New Campaign", "New Placements",
\* "Creative Rotation", "Retrafficking" and is none of "Budget Change",
\* "New Line Item", "Targeting Update", "Site Tagging", "Kochava" (other
\* spellings and longer strings included) yields the empty sequence.
C4_UnroutedIsEmpty ==
    (pc = "routed" /\ IsUnrouted) => (raised = "none" /\ payloads = << >>)

C4_Witness ==
    /\ pc = "routed"
    /\ RequestTypeIs("Budget Change Request")
    /\ raised = "none"
    /\ payloads = << >>

----------------------------------------------------------------------------
(* The taxonomy string. *)

TaxonomyFields ==
    <<"campaign_name", "targeting_geo", "language", "brand_code", "title_name",
      "campaign_objective", "channel_mapped">>

\* f[1]|f[2]|...|f[7]
JoinSeven(f) ==
    f[1] \o "|" \o f[2] \o "|" \o f[3] \o "|" \o f[4] \o "|" \o f[5] \o "|" \o f[6] \o "|" \o f[7]

\* the campaign has the seven fields, each a str
HasAllSeven ==
    \A i \in 1..7 : /\ TaxonomyFields[i] \in DOMAIN campaign
                     /\ campaign[TaxonomyFields[i]].t = "str"

\* C5: for a campaign that has all seven fields, the taxonomy is the values
\* of campaign_name, targeting_geo, language, brand_code, title_name,
\* campaign_objective, channel_mapped in this order, joined by single '|',
\* with nothing before, between or after.
C5_SevenFieldsInOrder ==
    (pc = "taxonomy" /\ HasAllSeven) =>
        taxonomy = JoinSeven([i \in 1..7 |-> campaign[TaxonomyFields[i]].v])

C5_Witness ==
    /\ pc = "taxonomy"
    /\ HasAllSeven
    /\ taxonomy = "DBUN_Bundle_Acq_US_ProgDisplay|US|SPA|DBUN|Bundle|Ret|YouTube"

FixedDefault ==
    [campaign_name |-> "UNKNOWN_CAMP", targeting_geo |-> "UNKNOWN_GEO", language |-> "ENG",
     brand_code |-> "UNKNOWN_BRAND", title_name |-> "UNKNOWN_TITLE",
     campaign_objective |-> "Acq", channel_mapped |-> "ProgDisplay"]

\* the field as the claim has it: the campaign's, else the fixed default,
\* the ticket's targeting_geo coming before the default of targeting_geo
ClaimedField(k) ==
    IF k \in DOMAIN campaign THEN Format(campaign[k])
    ELSE IF k = "targeting_geo" /\ "targeting_geo" \in DOMAIN ticket
    THEN Format(ticket["targeting_geo"])
    ELSE FixedDefault[k]

\* the same, the ticket's brand coming before the default of brand_code
FieldWithTicketBrand(k) ==
    IF k \in DOMAIN campaign THEN Format(campaign[k])
    ELSE IF k = "targeting_geo" /\ "targeting_geo" \in DOMAIN ticket
    THEN Format(ticket["targeting_geo"])
    ELSE IF k = "brand_code" /\ "brand" \in DOMAIN ticket
    THEN Format(ticket["brand"])
    ELSE FixedDefault[k]

\* C6 as stated: each field missing from the campaign falls back,
\* independently, to its fixed default (brand_code to "UNKNOWN_BRAND"),
\* targeting_geo to the ticket's targeting_geo when there is one.
C6_FixedDefaults ==
    (pc = "taxonomy") =>
        taxonomy = JoinSeven([i \in 1..7 |-> ClaimedField(TaxonomyFields[i])])

\* C6 (amended): each field missing from the campaign falls back,
\* independently, to its fixed default, except that targeting_geo falls
\* back to the ticket's targeting_geo and brand_code to the ticket's brand
\* when the ticket has one; fields present in the campaign are used as
\* they are.
C6_DefaultsWithTicketBrand ==
    (pc = "taxonomy") =>
        taxonomy = JoinSeven([i \in 1..7 |-> FieldWithTicketBrand(TaxonomyFields[i])])

C6_Witness ==
    /\ pc = "taxonomy"
    /\ DOMAIN campaign = {"language", "title_name"}
    /\ "brand" \in DOMAIN ticket
    /\ "targeting_geo" \in DOMAIN ticket
    /\ taxonomy = "UNKNOWN_CAMP|CA|SPA|MARVEL|Bundle|Acq|ProgDisplay"

\* C7: the taxonomy string has exactly 6 pipe characters, whatever the
\* field values are.
C7_ExactlySixPipes ==
    (pc = "taxonomy") => Count(taxonomy, "|") = 6

----------------------------------------------------------------------------
(* The EVE version table. *)

EveTable(platform, channel_mapped) ==
    CASE platform = "CM360" /\ channel_mapped \in {"ProgAudio", "ProgCTV", "ProgNative"}
           -> "V2.2"
      [] platform = "CM360" /\ channel_mapped = "YouTube" -> "V2.1"
      [] platform = "Yahoo DSP" -> "V2"
      [] platform = "Amazon DSP" -> "V3"
      [] platform = "DV360" -> "V1"
      [] OTHER -> "V1"

\* C8: get_eve_version returns, for every (platform, channel) pair, the
\* entry of the fixed table: CM360 with ProgAudio, ProgCTV or ProgNative is
\* "V2.2", CM360 with YouTube "V2.1", Yahoo DSP "V2", Amazon DSP "V3",
\* DV360 "V1" and every other pair "V1".
C8_EveVersionTable ==
    (pc = "eve") => eve.version = EveTable(eve.platform, eve.channel_mapped)

C8_Witness ==
    /\ pc = "eve"
    /\ eve = [platform |-> "CM360", channel_mapped |-> "ProgNative", version |-> "V2.2"]

----------------------------------------------------------------------------
(* The evaluator's result sequence. *)

CheckNames ==
    <<"Spec Compliance", "Tracking", "Targeting", "Frequency Cap", "Content Exclusions",
      "Landing Page", "Taxonomy Validation", "Floodlight Tags">>

\* C9: with an empty payload sequence and any campaign, run_all_checks
\* returns exactly one result, Spec Compliance / Fail / "No payloads to QA.",
\* and runs no other check (a campaign on which another check would raise
\* gets the same single result).
C9_EmptyPayloadsOneResult ==
    (pc = "checked" /\ payloads = << >>) =>
        /\ raised = "none"
        /\ results = << [check |-> "Spec Compliance", result |-> "Fail",
                         details |-> "No payloads to QA."] >>

C9_Witness ==
    /\ pc = "checked"
    /\ payloads = << >>
    /\ "campaign_name" \in DOMAIN campaign /\ campaign["campaign_name"] = PyNone
    /\ "landing_page" \in DOMAIN campaign /\ campaign["landing_page"] = PyNone
    /\ Len(results) = 1
    /\ results[1].result = "Fail"

\* C10: with any non-empty payload sequence and any campaign,
\* run_all_checks returns exactly 8 results, named Spec Compliance,
\* Tracking, Targeting, Frequency Cap, Content Exclusions, Landing Page,
\* Taxonomy Validation, Floodlight Tags in this order, each with a result
\* among Pass, Fail, Needs Review.
C10_EightResultsInOrder ==
    (pc = "checked" /\ Len(payloads) > 0) =>
        /\ raised = "none"
        /\ [i \in 1..Len(results) |-> results[i].check] = CheckNames
        /\ \A i \in 1..Len(results) : results[i].result \in {"Pass", "Fail", "Needs Review"}

----------------------------------------------------------------------------
(* The checks, one by one. *)

\* the campaign has no targeting_geo, or one that holds nothing
GeoMissing ==
    \/ "targeting_geo" \notin DOMAIN campaign
    \/ campaign["targeting_geo"] = PyNone
    \/ campaign["targeting_geo"] = PyStr("")

\* what C11 says of a Targeting result r
TargetingAsClaimed(r) ==
    /\ r.check = "Targeting"
    /\ IF GeoMissing
       THEN r.result = "Fail" /\ Contains("Missing geo", r.details)
       ELSE r.result = "Pass" /\ Contains(campaign["targeting_geo"].v, r.details)

\* C11: the Targeting check returns Fail, with details containing
\* "Missing geo", exactly when the campaign's targeting_geo is absent or
\* empty, and otherwise Pass with details containing the geo; the payloads
\* have no part in the verdict.
C11_TargetingVerdict ==
    /\ (pc = "check_targeting") => (raised = "none" /\ TargetingAsClaimed(verdict))
    /\ (pc = "checked" /\ raised = "none" /\ Len(payloads) > 0) =>
           TargetingAsClaimed(results[3])

C11_Witness ==
    /\ pc = "check_targeting"
    /\ "targeting_geo" \in DOMAIN campaign /\ campaign["targeting_geo"] = PyStr("")
    /\ NoActionAttr(payloads)
    /\ verdict.result = "Fail"
    /\ verdict.details = "Missing geo targeting."

\* the campaign's name is a str that has sub as a substring
NameContains(sub) ==
    /\ "campaign_name" \in DOMAIN campaign
    /\ campaign["campaign_name"].t = "str"
    /\ Contains(sub, campaign["campaign_name"].v)

IsSponsorship == NameContains("BES") \/ NameContains("Sponsorship")

\* C12: the Content Exclusions check returns Needs Review, with details
\* containing "S&P review", exactly when the campaign name contains "BES"
\* or "Sponsorship"; for every other campaign, one with no name included,
\* it returns Pass.
C12_ContentExclusionsVerdict ==
    (pc = "check_content_exclusions") =>
        /\ raised = "none"
        /\ verdict.check = "Content Exclusions"
        /\ IF IsSponsorship
           THEN verdict.result = "Needs Review" /\ Contains("S&P review", verdict.details)
           ELSE verdict.result = "Pass"

\* the campaign has a landing_page and it does not start with "https://"
HasNonHttpsLandingPage ==
    /\ "landing_page" \in DOMAIN campaign
    /\ ~(/\ campaign["landing_page"].t = "str"
          /\ StartsWith(campaign["landing_page"].v, "https://"))

\* C13: the Landing Page check returns Fail, with details containing
\* "Non-HTTPS URL", exactly when the campaign has a landing_page that does
\* not start with "https://"; a campaign with no landing_page passes.
C13_LandingPageVerdict ==
    (pc = "check_landing_page") =>
        /\ raised = "none"
        /\ verdict.check = "Landing Page"
        /\ IF HasNonHttpsLandingPage
           THEN verdict.result = "Fail" /\ Contains("Non-HTTPS URL", verdict.details)
           ELSE verdict.result = "Pass"

\* p is a CREATE_PLACEMENT payload whose placement_name (the empty name
\* when it has none) has fewer than 6 pipes
IsShortPlacement(p) ==
    /\ "action" \in DOMAIN p
    /\ p.action = "CREATE_PLACEMENT"
    /\ LET name == Get(p.payload, "placement_name", PyStr(""))
       IN  name.t = "str" => Count(name.v, "|") < 6

\* C14: the Taxonomy Validation check returns Fail exactly when some
\* CREATE_PLACEMENT payload has a placement_name with fewer than 6 pipes,
\* and Pass otherwise: payloads with other actions have no part in it.
C14_TaxonomyVerdict ==
    (pc = "check_taxonomy") =>
        /\ raised = "none"
        /\ verdict.check = "Taxonomy Validation"
        /\ IF \E i \in 1..Len(payloads) : IsShortPlacement(payloads[i])
           THEN verdict.result = "Fail"
           ELSE verdict.result = "Pass"

\* C15: for every non-empty payload sequence and every campaign, Spec
\* Compliance, Tracking, Frequency Cap and Floodlight Tags return Pass, and
\* only the details of Frequency Cap vary, with the campaign name
\* containing "BES" or "Sponsorship".
C15_StubChecksPass ==
    (Len(payloads) > 0) =>
        /\ (pc = "check_spec_compliance") =>
               /\ raised = "none"
               /\ verdict = [check |-> "Spec Compliance", result |-> "Pass",
                             details |-> "Creative matches spec."]
        /\ (pc = "check_tracking") =>
               /\ raised = "none"
               /\ verdict = [check |-> "Tracking", result |-> "Pass",
                             details |-> "Tracking tags configured."]
        /\ (pc = "check_frequency_cap") =>
               /\ raised = "none"
               /\ verdict.check = "Frequency Cap"
               /\ verdict.result = "Pass"
               /\ verdict.details = (IF IsSponsorship
                                     THEN "Frequency cap set for Sponsorship."
                                     ELSE "Frequency cap standard.")
        /\ (pc = "check_floodlight_tags") =>
               /\ raised = "none"
               /\ verdict = [check |-> "Floodlight Tags", result |-> "Pass",
                             details |-> "Conversion tags correctly assigned."]

CheckCalls ==
    {"check_spec_compliance", "check_tracking", "check_targeting", "check_frequency_cap",
     "check_content_exclusions", "check_landing_page", "check_taxonomy",
     "check_floodlight_tags"}

\* C17: run_all_checks and each of the eight checks never raise, whatever
\* the payload sequence and the campaign are: a result is always returned.
C17_ChecksNeverRaise ==
    (pc \in CheckCalls \cup {"checked"}) => raised = "none"

----------------------------------------------------------------------------
(* Two identical calls. *)

\* C16: a second call of process_ticket with the same ticket and campaign,
\* and a second call of run_all_checks with the same payloads and campaign,
\* return a value equal in every field to what the first call returned.
C16_SameOutputTwice ==
    /\ (pc = "routed_again") => payloads = previous
    /\ (pc = "checked_again") => results = previous

----------------------------------------------------------------------------
(* The router's failure modes, and the payloads it returns. *)

\* C18: process_ticket never raises and always returns a payload sequence,
\* also for the ticket mapping run_pipeline builds from a record with no
\* request_type or no platform: no request_type routes to the empty
\* sequence, no platform is replaced by "DV360".
C18_RouterNeverRaises ==
    (pc = "routed") =>
        /\ raised = "none"
        /\ (~HasRequestType) => payloads = << >>
        /\ (IsNewCampaign /\ "platform" \notin DOMAIN ticket) =>
               payloads[3].platform = PyStr("DV360")

ActionTags ==
    {"CREATE_CAMPAIGN_SHELL", "CREATE_PLACEMENT", "CREATE_INSERTION_ORDER", "ROTATE_CREATIVES",
     "UPDATE_BUDGET", "CREATE_LINE_ITEM", "UPDATE_TARGETING", "CREATE_FLOODLIGHT_TAG"}

\* the ticket's campaign_id, "CMP-UNKNOWN" when the ticket has no such key
TicketCampaignId ==
    IF "campaign_id" \in DOMAIN ticket THEN ticket["campaign_id"] ELSE PyStr("CMP-UNKNOWN")

\* C19: every payload process_ticket returns has status "Pending", no
\* response, one of the eight action tags and the ticket's campaign_id
\* ("CMP-UNKNOWN" when the ticket has none), so all payloads of one call
\* carry the same campaign_id.
C19_PayloadFields ==
    (pc \in {"routed", "routed_again"} /\ raised = "none") =>
        \A i \in 1..Len(payloads) :
            /\ payloads[i].status = "Pending"
            /\ payloads[i].response = PyNone
            /\ payloads[i].action \in ActionTags
            /\ payloads[i].campaign_id = TicketCampaignId
            /\ payloads[i].campaign_id = payloads[1].campaign_id

C19_Witness ==
    /\ pc = "routed"
    /\ RequestTypeIs("Budget Change")
    /\ "campaign_id" \in DOMAIN ticket
    /\ Len(payloads) = 1
    /\ payloads[1].campaign_id = PyStr("CMP-9999")
    /\ payloads[1].status = "Pending"

----------------------------------------------------------------------------
(* The arguments are read, never written. *)

\* C20: process_ticket leaves the ticket and the campaign it is given as
\* they are, and run_all_checks (each check, too) leaves the campaign and
\* every payload as they are: a payload's status stays "Pending" and its
\* payload mapping keeps its keys and values.
C20_ArgumentsUnchanged ==
    [][ /\ (pc' \in {"routed", "routed_again"}) =>
              (ticket' = ticket /\ campaign' = campaign)
        /\ (pc' \in CheckCalls \cup {"checked", "checked_again"}) =>
              (campaign' = campaign /\ payloads' = payloads) ]_vars

C20_Witness ==
    /\ pc = "checked"
    /\ raised = "none"
    /\ Len(results) = 8
    /\ Len(payloads) = 3
    /\ \A i \in 1..3 : payloads[i].status = "Pending"
    /\ payloads[2].payload.site = PyStr("Meta")

----------------------------------------------------------------------------
(* alerting/pipeline.py.  An HTTP call ends in a response or in an         *)
(* exception; which one is the network's choice, not the program's.        *)

Response(code, body) == [t |-> "response", status_code |-> code, text |-> body]

Raises(exc, message) == [t |-> "raises", exc |-> exc, message |-> message]

\* str.upper() of one character, on the letters the service names are made of
UpperChar(c) ==
    CASE c = "a" -> "A" [] c = "c" -> "C" [] c = "e" -> "E" [] c = "k" -> "K"
      [] c = "l" -> "L" [] c = "m" -> "M" [] c = "s" -> "S" [] c = "t" -> "T"
      [] OTHER -> c

RECURSIVE Upper(_)
\* str.upper()
Upper(str) == IF str = "" THEN "" ELSE UpperChar(SubSeq(str, 1, 1)) \o Upper(Tail(str))

\* mutant: a failed POST is tried once more
SendRetriesOnce(self, payload, service, outcome) ==
    LET url == IF service = "slack" THEN self.slack_url ELSE self.teams_url
        post == [op |-> "requests.post", url |-> url, json |-> payload, ends |-> outcome]
    IN  IF ~Truthy(url)
        THEN << [op |-> "print",
                 text |-> "[" \o Upper(service) \o " FALLBACK] " \o payload.text] >>
        ELSE IF outcome.t = "raises" THEN << post, post >>
        ELSE IF outcome.status_code \notin {200, 201, 204} THEN << post, post >>
        ELSE << post >>

\* AlertPipeline._send(payload, service): what it does, in order, when the
\* POST (if it makes one) ends in outcome.  It returns None and raises nothing.
_send(self, payload, service, outcome) ==
    LET url == IF service = "slack" THEN self.slack_url ELSE self.teams_url
        post == [op |-> "requests.post", url |-> url, json |-> payload, ends |-> outcome]
    IN  IF ~Truthy(url)
        THEN << [op |-> "print",
                 text |-> "[" \o Upper(service) \o " FALLBACK] " \o payload.text] >>
        ELSE IF outcome.t = "raises"
        THEN << post, [op |-> "print",
                       text |-> "Error sending " \o service \o " alert: " \o outcome.message] >>
        ELSE IF outcome.status_code \notin {200, 201, 204}
        THEN << post, [op |-> "print",
                       text |-> "Failed to send " \o service \o " alert: "
                                  \o ToString(outcome.status_code) \o " - " \o outcome.text] >>
        ELSE << post >>

RECURSIVE FailureLines(_)
\* the loop of send_qa_failure_alert over the failures
FailureLines(fs) ==
    IF fs = << >> THEN ""
    ELSE "- " \o Head(fs).check \o ": " \o Head(fs).details \o "\n" \o FailureLines(Tail(fs))

\* AlertPipeline.send_qa_failure_alert(ticket, failures).  A character of
\* the text outside ASCII is written as its Python escape: the text starts
\* with U+1F6D1
send_qa_failure_alert(self, tkt, fs, outcome) ==
    LET fields   == tkt.fields
        t_id     == Get(fields, "Ticket ID", PyStr(tkt.id))
        assignee == Get(fields, "Assignee", PyStr("Unassigned"))
        text     == "\\U0001f6d1 *QA Failed for Ticket " \o Format(t_id) \o "* (Assignee: "
                      \o Format(assignee) \o ")\nFailures:\n" \o FailureLines(fs)
    IN  _send(self, [text |-> text], "teams", outcome)

RECURSIVE BreachLines(_)
\* the loop of send_sla_breach_alert over the tickets
BreachLines(ts) ==
    IF ts = << >> THEN ""
    ELSE LET fields == Head(ts).fields
         IN  "- " \o Format(Get(fields, "Ticket ID", PyStr(Head(ts).id)))
               \o " | Priority: " \o Format(Get(fields, "Urgency", PyStr("N/A")))
               \o " | Assignee: " \o Format(Get(fields, "Assignee", PyStr("Unassigned")))
               \o "\n" \o BreachLines(Tail(ts))

\* AlertPipeline.send_sla_breach_alert(tickets).  A character of the text
\* outside ASCII is written as its Python escape: the text starts with
\* U+26A0 U+FE0F
send_sla_breach_alert(self, ts, outcome) ==
    IF ts = << >> THEN << >>
    ELSE _send(self, [text |-> "\\u26a0\\ufe0f *SLA Breach Alert*\nThe following tickets missed their SLA deadline:\n"
                                 \o BreachLines(ts)], "slack", outcome)

----------------------------------------------------------------------------
(* meta_api.py, tiktok_api.py: build_campaign.  A client reads its         *)
(* credentials from the environment when it is constructed.                *)

\* MetaAPIClient.build_campaign(campaign_name, budget_usd): the id, or None
MetaBuildCampaign(self, campaign_name, budget_usd, outcome) ==
    IF ~Truthy(self.access_token) \/ ~Truthy(self.ad_account_id) THEN PyNone
    ELSE IF outcome.t = "raises" THEN PyNone
    ELSE GetOrNone(outcome.json, "id")

\* TikTokAPIClient.build_campaign(campaign_name, budget_usd): the id, or None
TikTokBuildCampaign(self, campaign_name, budget_usd, outcome) ==
    IF ~Truthy(self.access_token) \/ ~Truthy(self.advertiser_id) THEN PyNone
    ELSE IF outcome.t = "raises" THEN PyNone
    ELSE IF GetOrNone(outcome.json, "code") = PyInt(0)
    THEN outcome.json.data.campaign_id
    ELSE PyNone

----------------------------------------------------------------------------
(* airtable/client.py: the writes to the datastore. *)

\* AirtableClient.update_ticket_stage(record_id, new_stage, notes)
update_ticket_stage(at, record_id, new_stage, notes) ==
    [at EXCEPT !.stage[record_id] = new_stage,
               !.notes[record_id] = IF notes # "" THEN notes ELSE @]

\* AirtableClient.assign_ticket(record_id, assignee_name): the update writes
\* the Assignee field of the record and leaves its other fields
assign_ticket(at, record_id, assignee_name) ==
    LET assigned(rec) ==
            IF rec.id = record_id
            THEN [rec EXCEPT !.fields = ("Assignee" :> PyStr(assignee_name)) @@ rec.fields]
            ELSE rec
    IN  [at EXCEPT !.pending = [i \in 1..Len(at.pending) |-> assigned(at.pending[i])]]

\* AirtableClient.create_qa_check(ticket_record_id, check_name, result, details)
create_qa_check(at, ticket_record_id, check_name, result, details) ==
    [at EXCEPT !.qa_checks = Append(@, [ticket_id |-> <<ticket_record_id>>,
                                        check_name |-> check_name,
                                        result |-> result,
                                        check_details |-> details])]

----------------------------------------------------------------------------
(* orchestrator.py: run_pipeline, one action per call it makes. *)

\* most tickets get_pending_tickets returns
MaxTickets == 2

\* the campaigns table of the datastore
CampaignTable ==
    [recGood    |-> [id |-> "recGood",
                     fields |-> [campaign_name |-> PyStr("DBUN_Bundle_Acq_US"),
                                 targeting_geo |-> PyStr("US"),
                                 budget_usd |-> PyInt(50000)]],
     recSponsor |-> [id |-> "recSponsor",
                     fields |-> [campaign_name |-> PyStr("ESP_Sports_Sponsorship_US"),
                                 budget_usd |-> PyInt(700)]],
     recEmpty   |-> [id |-> "recEmpty", fields |-> << >>]]

\* the fields of the ticket records in the Trafficking stage
TicketFields ==
    { ("Ticket ID" :> PyStr("TKT-00001")) @@
         [request_type |-> PyStr("New Campaign"), platform |-> PyStr("Meta"),
          campaign_id |-> PyList(<<PyStr("recGood")>>), Assignee |-> PyStr("Ana")],
      [request_type |-> PyStr("Urgent: New Campaign"), platform |-> PyStr("TikTok"),
       campaign_id |-> PyList(<<PyStr("recGood")>>)],
      ("Ticket ID" :> PyStr("TKT-00004")) @@
         [request_type |-> PyStr("New Campaign"), platform |-> PyStr("Meta"),
          campaign_id |-> PyList(<<PyStr("recSponsor")>>)],
      [request_type |-> PyStr("Reporting"), campaign_id |-> PyList(<<PyStr("recEmpty")>>)],
      [platform |-> PyStr("CM360"), campaign_id |-> PyList(<<PyStr("recGood")>>)],
      [request_type |-> PyStr("Budget Change"), platform |-> PyStr("TikTok"),
       campaign_id |-> PyList(<< >>), Assignee |-> PyStr("Ben")] }

\* the record id of the i-th ticket
RecordId(i) == "recT" \o ToString(i)

\* what get_pending_tickets can return: up to MaxTickets records, each with
\* its own id
PendingTickets ==
    { [i \in 1..Len(fs) |-> [id |-> RecordId(i), fields |-> fs[i]]] :
          fs \in SeqsUpTo(TicketFields, MaxTickets) }

\* the webhook URLs AlertPipeline reads from the environment
Alerters ==
    { [slack_url |-> PyStr("https://hooks.slack.test/T1"), teams_url |-> PyStr("")],
      [slack_url |-> PyNone, teams_url |-> PyStr("https://teams.test/hook")] }

\* how a webhook POST can end
PostOutcomes ==
    { Response(200, "ok"), Response(500, "server error"),
      Raises("ConnectionError", "connection refused") }

\* the credentials a platform client reads from the environment
MetaClients ==
    { [access_token |-> PyNone, ad_account_id |-> PyNone],
      [access_token |-> PyStr("tok"), ad_account_id |-> PyStr("act1")] }

TikTokClients ==
    { [access_token |-> PyStr("tok"), advertiser_id |-> PyNone],
      [access_token |-> PyStr("tok"), advertiser_id |-> PyStr("adv1")] }

\* how the campaign-creating POST of a platform client can end
MetaOutcomes ==
    { [t |-> "raises"], [t |-> "response", json |-> [id |-> PyStr("120210")]],
      [t |-> "response", json |-> << >>] }

TikTokOutcomes ==
    { [t |-> "raises"],
      [t |-> "response", json |-> [code |-> PyInt(0), data |-> [campaign_id |-> PyStr("1790")]]],
      [t |-> "response", json |-> [code |-> PyInt(40001), message |-> PyStr("no permission")]] }

\* what get_breached_tickets can return
BreachedTickets ==
    { << >>, << [id |-> "recT9", fields |-> [Urgency |-> PyStr("High")]] >> }

\* the arguments of assign_ticket
AssignedRecords == {RecordId(1)}

Assignees == {"Ana"}

\* the router and the evaluator have returned nothing yet
CoreIdle ==
    /\ ticket = << >>
    /\ campaign = << >>
    /\ clock = 0
    /\ payloads = << >>
    /\ taxonomy = ""
    /\ eve = NoEve
    /\ results = << >>
    /\ verdict = NoVerdict
    /\ previous = << >>
    /\ raised = "none"

PipelineInit ==
    /\ pc = "run_pipeline"
    /\ CoreIdle
    /\ JobRunnerIdle
    /\ \E pending \in PendingTickets :
          airtable = [pending |-> pending,
                      stage |-> [i \in {pending[j].id : j \in 1..Len(pending)} |-> "Trafficking"],
                      notes |-> [i \in {pending[j].id : j \in 1..Len(pending)} |-> ""],
                      qa_checks |-> << >>]
    /\ alerter \in Alerters
    /\ tickets = << >>
    /\ index = 0
    /\ written = 0
    /\ failures = << >>
    /\ calls = << >>

\* what run_pipeline leaves alone
PipelineFrame == UNCHANGED <<taxonomy, eve, verdict, previous, job_vars, alerter>>

\* the ticket record the for loop is at
record == tickets[index]

\* assign_ticket(record_id, assignee_name), called on the datastore before
\* the run reads it
AssignTicket ==
    /\ pc = "run_pipeline"
    /\ \E record_id \in AssignedRecords, assignee_name \in Assignees :
          /\ record_id \in DOMAIN airtable.stage
          /\ airtable' = assign_ticket(airtable, record_id, assignee_name)
    /\ PipelineFrame
    /\ UNCHANGED <<pc, ticket, campaign, clock, payloads, results, raised, tickets, index,
                   written, failures, calls>>

\* tickets = self.airtable.get_pending_tickets()
GetPendingTickets ==
    /\ pc = "run_pipeline"
    /\ pc' = "for"
    /\ tickets' = airtable.pending
    /\ PipelineFrame
    /\ UNCHANGED <<ticket, campaign, clock, payloads, results, raised, airtable, index,
                   written, failures, calls>>

\* the head of the loop body: the campaign lookup and the two mappings
NextTicket ==
    /\ pc = "for"
    /\ index < Len(tickets)
    /\ pc' = "process_ticket"
    /\ index' = index + 1
    /\ LET fields          == tickets[index + 1].fields
           campaign_list   == Get(fields, "campaign_id", PyList(<< >>))
           campaign_id     == IF Truthy(campaign_list) THEN campaign_list.v[1] ELSE PyNone
           campaign_record == IF Truthy(campaign_id) THEN CampaignTable[campaign_id.v]
                              ELSE PyNone
           campaign_fields == IF campaign_record # PyNone THEN campaign_record.fields
                              ELSE << >>
       IN  /\ ticket' = tkt_mapped(fields)
           /\ campaign' = cmp_mapped(campaign_fields)
           /\ calls' = IF Truthy(campaign_id)
                       THEN Append(calls, [op |-> "get_campaign",
                                           ticket |-> tickets[index + 1].id,
                                           campaign_record_id |-> campaign_id.v])
                       ELSE calls
    /\ payloads' = << >>
    /\ results' = << >>
    /\ failures' = << >>
    /\ written' = 0
    /\ PipelineFrame
    /\ UNCHANGED <<clock, raised, airtable, tickets>>

\* payloads = self.engine.process_ticket(tkt_mapped, cmp_mapped); an
\* exception ends run_pipeline
PipelineProcessTicket ==
    /\ pc = "process_ticket"
    /\ IF process_ticket_raises(ticket, campaign) # "none"
       THEN /\ raised' = process_ticket_raises(ticket, campaign)
            /\ pc' = "aborted"
            /\ UNCHANGED <<payloads, clock, calls>>
       ELSE \E now \in Readings(3) :
               LET ps == process_ticket(ticket, campaign, now)
               IN  /\ payloads' = ps
                   /\ clock' = IF Len(ps) = 0 THEN clock ELSE ps[Len(ps)].created_at
                   /\ raised' = "none"
                   /\ pc' = "run_all_checks"
                   /\ calls' = Append(calls, [op |-> "process_ticket", ticket |-> record.id,
                                              returns |-> Len(ps)])
    /\ PipelineFrame
    /\ UNCHANGED <<ticket, campaign, results, airtable, tickets, index, written, failures>>

\* check_results = self.qa.run_all_checks(payloads, cmp_mapped)
PipelineRunAllChecks ==
    /\ pc = "run_all_checks"
    /\ IF run_all_checks_raises(payloads, campaign) # "none"
       THEN /\ raised' = run_all_checks_raises(payloads, campaign)
            /\ pc' = "aborted"
            /\ UNCHANGED <<results, calls>>
       ELSE /\ results' = run_all_checks(payloads, campaign)
            /\ raised' = "none"
            /\ pc' = "create_qa_check"
            /\ calls' = Append(calls, [op |-> "run_all_checks", ticket |-> record.id,
                                       returns |-> Len(run_all_checks(payloads, campaign))])
    /\ PipelineFrame
    /\ UNCHANGED <<ticket, campaign, clock, payloads, airtable, tickets, index, written,
                   failures>>

\* one pass of the loop over check_results: the row written, the result
\* kept when it is a failure
CreateQACheck ==
    /\ pc = "create_qa_check"
    /\ written < Len(results)
    /\ LET res == results[written + 1]
       IN  /\ airtable' = create_qa_check(airtable, record.id, res.check, res.result,
                                          res.details)
           /\ calls' = Append(calls, [op |-> "create_qa_check", ticket |-> record.id,
                                      check |-> res.check, result |-> res.result])
           /\ failures' = IF res.result \in {"Fail", "Needs Review"}
                          THEN Append(failures, res) ELSE failures
    /\ written' = written + 1
    /\ PipelineFrame
    /\ UNCHANGED <<ticket, campaign, pc, clock, payloads, results, raised, tickets, index>>

\* the loop over check_results has ended
ChecksWritten == pc = "create_qa_check" /\ written = Len(results)

\* is_new_camp = "New Campaign" in req_type
is_new_camp == Contains("New Campaign", Get(record.fields, "request_type", PyStr("Unknown")).v)

\* platform_dest = tkt_mapped.get("platform", "Unknown")
platform_dest == Get(ticket, "platform", PyStr("Unknown"))

\* the payload the for loop of a deployment stops at
InsertionOrders == SelectSeq(payloads, LAMBDA pl : pl.action = "CREATE_INSERTION_ORDER")

StageCall(new_stage, notes) ==
    [op |-> "update_ticket_stage", ticket |-> record.id, stage |-> new_stage,
     notes |-> notes]

QANotes == "Automated QA identified issues preventing launch."

\* mutant: a ticket with failures is released all the same
MoveToReadyDespiteFailures ==
    /\ ChecksWritten
    /\ failures # << >>
    /\ pc' = "alert"
    /\ airtable' = update_ticket_stage(airtable, record.id, "Ready to Launch", "")
    /\ calls' = Append(calls, StageCall("Ready to Launch", ""))
    /\ PipelineFrame
    /\ UNCHANGED <<ticket, campaign, clock, payloads, results, raised, tickets, index,
                   written, failures>>

\* mutant: the alert goes out before the stage is written
AlertBeforeStageUpdate ==
    /\ ChecksWritten
    /\ failures # << >>
    /\ pc' = "for"
    /\ airtable' = update_ticket_stage(airtable, record.id, "QA", QANotes)
    /\ calls' = calls \o << [op |-> "send_qa_failure_alert", ticket |-> record.id,
                             failures |-> failures],
                            StageCall("QA", QANotes) >>
    /\ PipelineFrame
    /\ UNCHANGED <<ticket, campaign, clock, payloads, results, raised, tickets, index,
                   written, failures>>

\* if failures: the ticket moves to QA
MoveToQA ==
    /\ ChecksWritten
    /\ failures # << >>
    /\ pc' = "alert"
    /\ airtable' = update_ticket_stage(airtable, record.id, "QA", QANotes)
    /\ calls' = Append(calls, StageCall("QA", QANotes))
    /\ PipelineFrame
    /\ UNCHANGED <<ticket, campaign, clock, payloads, results, raised, tickets, index,
                   written, failures>>

\* self.alerter.send_qa_failure_alert(ticket, failures)
SendQAFailureAlert ==
    /\ pc = "alert"
    /\ pc' = "for"
    /\ \E outcome \in PostOutcomes :
          calls' = Append(calls, [op |-> "send_qa_failure_alert", ticket |-> record.id,
                                  failures |-> failures])
                     \o send_qa_failure_alert(alerter, record, failures, outcome)
    /\ PipelineFrame
    /\ UNCHANGED <<ticket, campaign, clock, payloads, results, raised, airtable, tickets,
                   index, written, failures>>

\* mutant: the ticket is released whatever build_campaign returns
DeployToMetaAlwaysReady ==
    /\ ChecksWritten
    /\ failures = << >>
    /\ platform_dest = PyStr("Meta") /\ is_new_camp
    /\ pc' = "for"
    /\ IF InsertionOrders = << >>
       THEN UNCHANGED <<airtable, calls>>
       ELSE \E meta \in MetaClients, outcome \in MetaOutcomes :
               LET campaign_taxonomy == Get(campaign, "campaign_name", PyStr("UNKNOWN"))
                   budget  == Get(InsertionOrders[1].payload, "budget", PyInt(1000))
                   meta_id == MetaBuildCampaign(meta, campaign_taxonomy, budget, outcome)
                   built   == [op |-> "build_campaign", ticket |-> record.id,
                               client |-> "Meta", campaign_name |-> campaign_taxonomy,
                               budget_usd |-> budget, returns |-> meta_id]
                   notes   == "Deployed dynamically to Meta API - ID: " \o Format(meta_id)
               IN  /\ airtable' = update_ticket_stage(airtable, record.id,
                                                      "Ready to Launch", notes)
                   /\ calls' = calls \o <<built, StageCall("Ready to Launch", notes)>>
    /\ PipelineFrame
    /\ UNCHANGED <<ticket, campaign, clock, payloads, results, raised, tickets, index,
                   written, failures>>

\* no failures, a new campaign for Meta: the deployment and, given an id,
\* the stage update
DeployToMeta ==
    /\ ChecksWritten
    /\ failures = << >>
    /\ platform_dest = PyStr("Meta") /\ is_new_camp
    /\ pc' = "for"
    /\ IF InsertionOrders = << >>
       THEN UNCHANGED <<airtable, calls>>
       ELSE \E meta \in MetaClients, outcome \in MetaOutcomes :
               LET campaign_taxonomy == Get(campaign, "campaign_name", PyStr("UNKNOWN"))
                   budget  == Get(InsertionOrders[1].payload, "budget", PyInt(1000))
                   meta_id == MetaBuildCampaign(meta, campaign_taxonomy, budget, outcome)
                   built   == [op |-> "build_campaign", ticket |-> record.id,
                               client |-> "Meta", campaign_name |-> campaign_taxonomy,
                               budget_usd |-> budget, returns |-> meta_id]
                   notes   == "Deployed dynamically to Meta API - ID: " \o Format(meta_id)
               IN  IF Truthy(meta_id)
                   THEN /\ airtable' = update_ticket_stage(airtable, record.id,
                                                           "Ready to Launch", notes)
                        /\ calls' = calls \o <<built, StageCall("Ready to Launch", notes)>>
                   ELSE /\ calls' = Append(calls, built)
                        /\ UNCHANGED airtable
    /\ PipelineFrame
    /\ UNCHANGED <<ticket, campaign, clock, payloads, results, raised, tickets, index,
                   written, failures>>

\* no failures, a new campaign for TikTok
DeployToTikTok ==
    /\ ChecksWritten
    /\ failures = << >>
    /\ ~(platform_dest = PyStr("Meta") /\ is_new_camp)
    /\ platform_dest = PyStr("TikTok") /\ is_new_camp
    /\ pc' = "for"
    /\ IF InsertionOrders = << >>
       THEN UNCHANGED <<airtable, calls>>
       ELSE \E tiktok \in TikTokClients, outcome \in TikTokOutcomes :
               LET campaign_taxonomy == Get(campaign, "campaign_name", PyStr("UNKNOWN"))
                   budget == Get(InsertionOrders[1].payload, "budget", PyInt(500))
                   tt_id  == TikTokBuildCampaign(tiktok, campaign_taxonomy, budget, outcome)
                   built  == [op |-> "build_campaign", ticket |-> record.id,
                              client |-> "TikTok", campaign_name |-> campaign_taxonomy,
                              budget_usd |-> budget, returns |-> tt_id]
                   notes  == "Deployed dynamically to TikTok API - ID: " \o Format(tt_id)
               IN  IF Truthy(tt_id)
                   THEN /\ airtable' = update_ticket_stage(airtable, record.id,
                                                           "Ready to Launch", notes)
                        /\ calls' = calls \o <<built, StageCall("Ready to Launch", notes)>>
                   ELSE /\ calls' = Append(calls, built)
                        /\ UNCHANGED airtable
    /\ PipelineFrame
    /\ UNCHANGED <<ticket, campaign, clock, payloads, results, raised, tickets, index,
                   written, failures>>

\* no failures, nothing to deploy: the ticket moves to Ready to Launch
MoveToReadyToLaunch ==
    /\ ChecksWritten
    /\ failures = << >>
    /\ ~(platform_dest = PyStr("Meta") /\ is_new_camp)
    /\ ~(platform_dest = PyStr("TikTok") /\ is_new_camp)
    /\ pc' = "for"
    /\ airtable' = update_ticket_stage(airtable, record.id, "Ready to Launch", "")
    /\ calls' = Append(calls, StageCall("Ready to Launch", ""))
    /\ PipelineFrame
    /\ UNCHANGED <<ticket, campaign, clock, payloads, results, raised, tickets, index,
                   written, failures>>

\* after the loop: the breached tickets and their alert
HealthCheck ==
    /\ pc = "for"
    /\ index = Len(tickets)
    /\ pc' = "finished"
    /\ \E breached \in BreachedTickets, outcome \in PostOutcomes :
          calls' = Append(calls, [op |-> "get_breached_tickets", returns |-> breached])
                     \o send_sla_breach_alert(alerter, breached, outcome)
    /\ PipelineFrame
    /\ UNCHANGED <<ticket, campaign, clock, payloads, results, raised, airtable, tickets,
                   index, written, failures>>

PipelineNext ==
    \/ AssignTicket
    \/ GetPendingTickets
    \/ NextTicket
    \/ PipelineProcessTicket
    \/ PipelineRunAllChecks
    \/ CreateQACheck
    \/ MoveToQA
    \/ SendQAFailureAlert
    \/ DeployToMeta
    \/ DeployToTikTok
    \/ MoveToReadyToLaunch
    \/ HealthCheck

PipelineSpec == PipelineInit /\ [][PipelineNext]_vars

----------------------------------------------------------------------------
(* run_pipeline: what happens to a ticket. *)

\* the calls that are made for one ticket
TicketOps ==
    {"get_campaign", "process_ticket", "run_all_checks", "create_qa_check",
     "build_campaign", "update_ticket_stage", "send_qa_failure_alert"}

\* the calls of one kind made for the ticket id, in order
CallsOf(id, op) ==
    SelectSeq(calls, LAMBDA c : c.op = op /\ c.ticket = id)

\* the stage updates made for the ticket id, to one stage
StageUpdates(id, new_stage) ==
    SelectSeq(calls, LAMBDA c : c.op = "update_ticket_stage" /\ c.ticket = id
                                  /\ c.stage = new_stage)

\* process_ticket returned the empty sequence for the ticket id
RoutedEmpty(id) ==
    \E i \in 1..Len(calls) :
        calls[i].op = "process_ticket" /\ calls[i].ticket = id /\ calls[i].returns = 0

\* the loop body has run to its end for the ticket the loop is at
TicketDone == pc \in {"for", "finished"} /\ index >= 1

\* C21: a ticket for which process_ticket returned the empty sequence is
\* "no automation available", not an error: no QA failure alert is sent for
\* it and it is not moved to the stage "QA".
C21_NoAutomationIsNoError ==
    \A i \in 1..Len(tickets) :
        RoutedEmpty(tickets[i].id) =>
            /\ CallsOf(tickets[i].id, "send_qa_failure_alert") = << >>
            /\ StageUpdates(tickets[i].id, "QA") = << >>

----------------------------------------------------------------------------
(* run_pipeline: the order of the calls. *)

\* where a call stands in the loop body
Rank(op) ==
    CASE op = "get_campaign" -> 0
      [] op = "process_ticket" -> 1
      [] op = "run_all_checks" -> 2
      [] op = "create_qa_check" -> 3
      [] op = "build_campaign" -> 4
      [] op = "update_ticket_stage" -> 5
      [] op = "send_qa_failure_alert" -> 6

\* the position in tickets of the ticket id
Position(id) == CHOOSE k \in 1..Len(tickets) : tickets[k].id = id

\* the calls made for tickets, without the prints and POSTs of the alerter
TicketCalls == SelectSeq(calls, LAMBDA c : c.op \in TicketOps)

\* C22: for one ticket the calls are made in this order: process_ticket,
\* run_all_checks, one create_qa_check per result in result order, the stage
\* update, then (only with failures) the QA failure alert; no write and no
\* alert for a ticket comes before its run_all_checks, and the calls of two
\* tickets are not interleaved.
C22_CallOrder ==
    LET tc == TicketCalls
    IN  /\ \A i \in 1..(Len(tc) - 1) :
               /\ Position(tc[i].ticket) <= Position(tc[i + 1].ticket)
               /\ tc[i].ticket = tc[i + 1].ticket => Rank(tc[i].op) <= Rank(tc[i + 1].op)
        /\ \A k \in 1..Len(tickets) :
               LET id == tickets[k].id
               IN  /\ Len(CallsOf(id, "process_ticket")) <= 1
                   /\ Len(CallsOf(id, "run_all_checks")) <= 1
                   /\ Len(CallsOf(id, "update_ticket_stage")) <= 1
                   /\ \A op \in {"create_qa_check", "build_campaign", "update_ticket_stage",
                                 "send_qa_failure_alert"} :
                          CallsOf(id, op) # << >> => Len(CallsOf(id, "run_all_checks")) = 1
                   /\ CallsOf(id, "run_all_checks") # << >> =>
                          Len(CallsOf(id, "process_ticket")) = 1
                   /\ \A a \in 1..Len(CallsOf(id, "send_qa_failure_alert")) :
                          /\ CallsOf(id, "send_qa_failure_alert")[a].failures # << >>
                          /\ Len(StageUpdates(id, "QA")) = 1
                   /\ CallsOf(id, "update_ticket_stage") # << >> =>
                          Len(CallsOf(id, "create_qa_check"))
                              = CallsOf(id, "run_all_checks")[1].returns
        /\ (index >= 1 /\ pc \in {"create_qa_check", "alert", "for", "finished"}) =>
               LET writes == CallsOf(record.id, "create_qa_check")
               IN  /\ Len(writes) = written
                   /\ \A k \in 1..written :
                          /\ writes[k].check = results[k].check
                          /\ writes[k].result = results[k].result

C22_Witness ==
    /\ pc = "finished"
    /\ Len(tickets) = 2
    /\ Len(CallsOf("recT1", "send_qa_failure_alert")) = 1
    /\ Len(CallsOf("recT1", "create_qa_check")) = 8
    /\ Len(CallsOf("recT2", "build_campaign")) = 1
    /\ Len(CallsOf("recT2", "update_ticket_stage")) = 1

----------------------------------------------------------------------------
(* run_pipeline: the stage a ticket is moved to. *)

\* the results of the ticket the loop is at that are failures
Failing == SelectSeq(results, LAMBDA r : r.result \in {"Fail", "Needs Review"})

\* the text handed to _send by the call after position i of calls
TextSent(i) ==
    IF calls[i + 1].op = "print" THEN calls[i + 1].text ELSE calls[i + 1].json.text

\* C23: a ticket is moved to "QA" and exactly one QA failure alert is sent,
\* listing exactly the results that are Fail or Needs Review, if and only if
\* one of its results is Fail or Needs Review; such a ticket is never moved
\* to "Ready to Launch" and no build_campaign is called for it.
C23_FailuresMoveToQA ==
    (TicketDone /\ raised = "none") =>
        LET id     == record.id
            alerts == CallsOf(id, "send_qa_failure_alert")
        IN  /\ Len(StageUpdates(id, "QA")) = (IF Failing # << >> THEN 1 ELSE 0)
            /\ Len(alerts) = (IF Failing # << >> THEN 1 ELSE 0)
            /\ Failing # << >> =>
                   /\ alerts[1].failures = Failing
                   /\ \A i \in 1..Len(calls) :
                          calls[i] = alerts[1] =>
                              Contains("Failures:\n" \o FailureLines(Failing), TextSent(i))
                   /\ StageUpdates(id, "Ready to Launch") = << >>
                   /\ CallsOf(id, "build_campaign") = << >>
                   /\ airtable.stage[id] = "QA"

C23_Witness ==
    /\ TicketDone
    /\ raised = "none"
    /\ Len(results) = 8
    /\ Len(Failing) = 1
    /\ Failing[1].result = "Needs Review"
    /\ airtable.stage[record.id] = "QA"
    /\ Len(CallsOf(record.id, "send_qa_failure_alert")) = 1

\* C24: every ticket run_pipeline processes gets exactly one
\* update_ticket_stage call, to "QA" or to "Ready to Launch", whatever the
\* platform clients return; none is left in the stage "Trafficking".
C24_OneStageUpdate ==
    (TicketDone /\ raised = "none") =>
        /\ Len(CallsOf(record.id, "update_ticket_stage")) = 1
        /\ airtable.stage[record.id] \in {"QA", "Ready to Launch"}

\* the note of a stage update tells of a deployment
IsDeploymentNote(notes) == Contains("Deployed dynamically to ", notes)

\* C25: build_campaign is called at most once for a ticket, and only when
\* every result is Pass, the request_type contains "New Campaign" and the
\* platform is exactly "Meta" or "TikTok", on the client of that platform;
\* the budget passed is that of the CREATE_INSERTION_ORDER payload; and the
\* ticket is moved to "Ready to Launch" with a deployment note only if
\* build_campaign returned an id.
C25_DeploymentGuard ==
    (TicketDone /\ raised = "none") =>
        LET id     == record.id
            builds == CallsOf(id, "build_campaign")
            ready  == StageUpdates(id, "Ready to Launch")
        IN  /\ Len(builds) <= 1
            /\ builds # << >> =>
                   /\ \A k \in 1..Len(results) : results[k].result = "Pass"
                   /\ Contains("New Campaign", record.fields.request_type.v)
                   /\ record.fields.platform \in {PyStr("Meta"), PyStr("TikTok")}
                   /\ builds[1].client = record.fields.platform.v
                   /\ builds[1].campaign_name = campaign.campaign_name
                   /\ Len(InsertionOrders) = 1
                   /\ builds[1].budget_usd = InsertionOrders[1].payload.budget
                   /\ builds[1].budget_usd = campaign.budget_usd
                   /\ ready # << >> <=> builds[1].returns # PyNone
            /\ \A k \in 1..Len(ready) :
                   IsDeploymentNote(ready[k].notes) <=> builds # << >>
            /\ \A k \in 1..Len(ready) :
                   IsDeploymentNote(ready[k].notes) =>
                       /\ builds[1].returns # PyNone
                       /\ Contains(builds[1].client \o " API - ID: " \o builds[1].returns.v,
                                   ready[k].notes)
                       /\ airtable.notes[id] = ready[k].notes

C25_Witness ==
    /\ TicketDone
    /\ raised = "none"
    /\ Len(CallsOf(record.id, "build_campaign")) = 1
    /\ CallsOf(record.id, "build_campaign")[1].client = "TikTok"
    /\ CallsOf(record.id, "build_campaign")[1].budget_usd = PyInt(50000)
    /\ CallsOf(record.id, "build_campaign")[1].returns = PyStr("1790")
    /\ airtable.stage[record.id] = "Ready to Launch"

----------------------------------------------------------------------------
(* AlertPipeline._send, as run_pipeline's two alerts use it. *)

\* the POSTs among the calls cs
Posts(cs) == SelectSeq(cs, LAMBDA c : c.op = "requests.post")

\* the console lines among the calls cs
Prints(cs) == SelectSeq(cs, LAMBDA c : c.op = "print")

\* C28: _send is fire-and-log.  A step that sends an alert makes at most one
\* POST and none twice; with no webhook URL for the service it makes none
\* and prints the console fallback; with a URL it makes exactly one, to that
\* URL, and prints nothing after a 200/201/204 and one line after any other
\* response or after an exception; nothing is raised and run_pipeline goes on.
C28_SendIsFireAndLog ==
    [][ LET new     == SubSeq(calls', Len(calls) + 1, Len(calls'))
            service == IF pc = "alert" THEN "teams" ELSE "slack"
            url     == IF service = "slack" THEN alerter.slack_url ELSE alerter.teams_url
            sends   == pc = "alert" \/ (pc = "for" /\ pc' = "finished"
                                          /\ calls'[Len(calls) + 1].returns # << >>)
        IN  /\ sends =>
                /\ raised' = "none"
                /\ pc' = (IF pc = "alert" THEN "for" ELSE "finished")
                /\ Len(Posts(new)) <= 1
                /\ Len(Prints(new)) <= 1
                /\ Len(Posts(new)) + Len(Prints(new)) >= 1
                /\ (url = PyNone \/ url = PyStr("")) =>
                       /\ Posts(new) = << >>
                       /\ Len(Prints(new)) = 1
                       /\ StartsWith(Prints(new)[1].text, "[" \o Upper(service) \o " FALLBACK] ")
                /\ (url # PyNone /\ url # PyStr("")) =>
                       /\ Len(Posts(new)) = 1
                       /\ Posts(new)[1].url = url
                       /\ LET ends == Posts(new)[1].ends
                          IN  IF ends.t = "raises"
                              THEN /\ Len(Prints(new)) = 1
                                   /\ StartsWith(Prints(new)[1].text,
                                                 "Error sending " \o service \o " alert: ")
                              ELSE IF ends.status_code \notin {200, 201, 204}
                              THEN /\ Len(Prints(new)) = 1
                                   /\ StartsWith(Prints(new)[1].text,
                                                 "Failed to send " \o service \o " alert: "
                                                   \o ToString(ends.status_code))
                              ELSE Prints(new) = << >>
            /\ (~sends) => Posts(new) = << >> ]_vars

\* a failed POST of a QA failure alert, after which the next ticket is processed
C28_Witness ==
    /\ pc = "process_ticket"
    /\ index = 2
    /\ Len(Posts(calls)) = 1
    /\ Len(Prints(calls)) = 1
    /\ StartsWith(Prints(calls)[1].text, "Error sending teams alert: ")

----------------------------------------------------------------------------
(* The router's placements under the evaluator's taxonomy check. *)

\* the placement names of the CREATE_PLACEMENT payloads among ps
PlacementNames(ps) ==
    { ps[i].payload.placement_name : i \in {j \in 1..Len(ps) : ps[j].action = "CREATE_PLACEMENT"} }

\* C26: evaluating the payloads process_ticket produced never yields a
\* Taxonomy Validation Fail: every CREATE_PLACEMENT payload the router emits
\* has a placement_name, a str, with at least 6 pipe characters.
C26_RouterPlacementsPassTaxonomy ==
    [][ /\ (pc' \in {"routed", "routed_again"} /\ raised' = "none") =>
              /\ \A name \in PlacementNames(payloads') :
                     name.t = "str" /\ Count(name.v, "|") >= 6
              /\ check_taxonomy_raises(payloads', campaign') = "none"
              /\ check_taxonomy(payloads', campaign').result = "Pass"
        /\ (pc = "routed" /\ pc' = "checked" /\ raised' = "none") =>
              \A k \in 1..Len(results') :
                  results'[k].check = "Taxonomy Validation" => results'[k].result = "Pass" ]_vars

C26_Witness ==
    /\ pc = "checked"
    /\ raised = "none"
    /\ IsNewCampaign
    /\ Len(payloads) = 3
    /\ payloads[2].payload.placement_name.v = "A|B|US|ENG|DBUN|Bundle|Acq|ProgDisplay"
    /\ Len(results) = 8
    /\ results[7] = [check |-> "Taxonomy Validation", result |-> "Pass",
                     details |-> "Taxonomy valid."]

----------------------------------------------------------------------------
(* The router's dispatch. *)

\* the action tags of the first route, in the order of process_ticket's
\* conditions, that the request_type matches
FirstMatch ==
    IF RequestTypeContains("New Campaign") \/ RequestTypeContains("New Placements")
    THEN <<"CREATE_CAMPAIGN_SHELL", "CREATE_PLACEMENT", "CREATE_INSERTION_ORDER">>
    ELSE IF RequestTypeContains("Creative Rotation") \/ RequestTypeContains("Retrafficking")
    THEN <<"ROTATE_CREATIVES">>
    ELSE IF RequestTypeIs("Budget Change") THEN <<"UPDATE_BUDGET">>
    ELSE IF RequestTypeIs("New Line Item") THEN <<"CREATE_LINE_ITEM">>
    ELSE IF RequestTypeIs("Targeting Update") THEN <<"UPDATE_TARGETING">>
    ELSE IF RequestTypeIs("Site Tagging") \/ RequestTypeIs("Kochava")
    THEN <<"CREATE_FLOODLIGHT_TAG">>
    ELSE << >>

\* C27: process_ticket returns the payloads of exactly one handler, the
\* first whose condition matches: a request_type containing both
\* "New Campaign" and "Creative Rotation" yields the 3 new-campaign payloads
\* and no ROTATE_CREATIVES payload, and the number of payloads returned is
\* always 0, 1 or 3.
C27_FirstMatchingHandler ==
    (pc \in {"routed", "routed_again"} /\ raised = "none") =>
        /\ Actions(payloads) = FirstMatch
        /\ Len(payloads) \in {0, 1, 3}
        /\ (RequestTypeContains("New Campaign") /\ RequestTypeContains("Creative Rotation")) =>
               /\ Len(payloads) = 3
               /\ \A i \in 1..3 : payloads[i].action # "ROTATE_CREATIVES"

C27_Witness ==
    /\ pc = "routed"
    /\ raised = "none"
    /\ RequestTypeIs("New Campaign + Creative Rotation")
    /\ Actions(payloads) =
           <<"CREATE_CAMPAIGN_SHELL", "CREATE_PLACEMENT", "CREATE_INSERTION_ORDER">>

----------------------------------------------------------------------------
(* pipelines/job_runner.py.  The workspace is the Jobs API's state: a list *)
(* of jobs, each a job_id and its settings.  A call of the API ends in a   *)
(* response or in an error, which _api_call turns into {"error": ...}.     *)

\* most calls of create_or_update_workflow
MaxCalls == 3

\* list_jobs' default limit
ListLimit == 25

\* list_jobs(): the first ListLimit jobs, none when the call ends in an error
list_jobs(ws, outcome) ==
    IF outcome = "error" THEN << >>
    ELSE SubSeq(ws, 1, IF Len(ws) < ListLimit THEN Len(ws) ELSE ListLimit)

\* the task definition create_or_update_workflow builds from a TaskConfig
TaskDef(task) ==
    LET task_def == [task_key |-> task.task_key,
                     notebook_task |-> [notebook_path |-> task.notebook_path,
                                        base_parameters |-> task.parameters],
                     timeout_seconds |-> task.timeout_seconds]
    IN  IF Len(task.depends_on) > 0
        THEN ("depends_on" :> [i \in 1..Len(task.depends_on) |->
                                  [task_key |-> task.depends_on[i]]]) @@ task_def
        ELSE task_def

\* the settings create_or_update_workflow builds from a WorkflowConfig
Settings(cfg) ==
    LET settings == [name |-> cfg.name,
                     tasks |-> [i \in 1..Len(cfg.tasks) |-> TaskDef(cfg.tasks[i])],
                     max_concurrent_runs |-> cfg.max_concurrent_runs, tags |-> cfg.tags]
        scheduled == IF Truthy(cfg.schedule)
                     THEN ("schedule" :> [quartz_cron_expression |-> cfg.schedule.v,
                                          timezone_id |-> cfg.timezone,
                                          pause_status |-> "UNPAUSED"]) @@ settings
                     ELSE settings
    IN  IF Len(cfg.email_notifications) > 0
        THEN ("email_notifications" :> [on_failure |-> cfg.email_notifications,
                                        on_start |-> << >>,
                                        on_success |-> << >>]) @@ scheduled
        ELSE scheduled

\* existing_job: the position in existing of the first job named like the
\* config, 0 for None
ExistingJob(existing, cfg) ==
    LET S == {i \in 1..Len(existing) : existing[i].settings.name = cfg.name}
    IN  IF S = {} THEN 0 ELSE CHOOSE i \in S : \A j \in S : i <= j

\* the workspace after create_or_update_workflow(cfg), whose list call ends
\* in listed and whose reset or create call ends in written
WorkspaceAfter(ws, cfg, listed, written_) ==
    LET i == ExistingJob(list_jobs(ws, listed), cfg)
    IN  IF written_ = "error" THEN ws
        ELSE IF i > 0 THEN [ws EXCEPT ![i].settings = Settings(cfg)]
        ELSE Append(ws, [job_id |-> Len(ws) + 1, settings |-> Settings(cfg)])

\* what create_or_update_workflow(cfg) returns
create_or_update_workflow(ws, cfg, listed, written_) ==
    LET existing == list_jobs(ws, listed)
        i == ExistingJob(existing, cfg)
    IN  IF written_ = "error" THEN PyNone
        ELSE IF i > 0 THEN PyInt(existing[i].job_id)
        ELSE PyInt(Len(ws) + 1)

\* get_run_status(run_id), from what GET /runs/get answered
get_run_status(run_id, result) ==
    LET state == Get(result, "state", << >>)
    IN  [run_id |-> run_id,
         lifecycle_state |-> Get(state, "life_cycle_state", "UNKNOWN"),
         result_state |-> GetOrNone(state, "result_state"),
         state_message |-> Get(state, "state_message", ""),
         start_time |-> GetOrNone(result, "start_time"),
         end_time |-> GetOrNone(result, "end_time"),
         tasks |-> LET ts == Get(result, "tasks", << >>)
                   IN  [i \in 1..Len(ts) |->
                           [task_key |-> GetOrNone(ts[i], "task_key"),
                            state |-> GetOrNone(Get(ts[i], "state", << >>), "life_cycle_state"),
                            result |-> GetOrNone(Get(ts[i], "state", << >>), "result_state")]]]

\* the lifecycle states at which wait_for_run returns from its loop
FinalStates == {"TERMINATED", "SKIPPED", "INTERNAL_ERROR"}

\* the jobs of a workspace that holds n other jobs and then the jobs named
\* names
Jobs(n, names) ==
    [i \in 1..(n + Len(names)) |->
        [job_id |-> i,
         settings |-> [name |-> IF i <= n THEN "etl_" \o ToString(i) ELSE names[i - n]]]]

\* the workspaces the calls start from: empty, the workflow there, the
\* workflow there behind a full page of other jobs
Workspaces ==
    { Jobs(0, << >>), Jobs(0, <<"adops_daily">>), Jobs(1, <<"adops_daily">>),
      Jobs(ListLimit, <<"adops_daily">>) }

\* the WorkflowConfigs handed to create_or_update_workflow
WorkflowConfigs ==
    [name : {"adops_daily", "adops_weekly"},
     tasks : {<<[task_key |-> "bronze", notebook_path |-> "/adops/01_bronze",
                 depends_on |-> << >>, timeout_seconds |-> 1800, parameters |-> << >>],
                [task_key |-> "silver", notebook_path |-> "/adops/02_silver",
                 depends_on |-> <<"bronze">>, timeout_seconds |-> 3600,
                 parameters |-> << >>]>>},
     schedule : {PyNone, PyStr(""), PyStr("0 0 6 * * ?")},
     timezone : {"America/New_York"},
     email_notifications : {<< >>, <<"adops@example.com">>},
     max_concurrent_runs : {1},
     tags : {<< >>}]

\* what GET /runs/get can answer
RunsGetResults ==
    { [error |-> "timeout"],
      [state |-> [life_cycle_state |-> "PENDING"]],
      [state |-> [life_cycle_state |-> "RUNNING"], start_time |-> PyInt(1)],
      [state |-> [life_cycle_state |-> "TERMINATED", result_state |-> PyStr("SUCCESS")],
       start_time |-> PyInt(1), end_time |-> PyInt(2)],
      [state |-> [life_cycle_state |-> "TERMINATED", result_state |-> PyStr("FAILED")],
       start_time |-> PyInt(1), end_time |-> PyInt(2),
       tasks |-> <<[task_key |-> PyStr("bronze"),
                    state |-> [life_cycle_state |-> PyStr("TERMINATED"),
                               result_state |-> PyStr("FAILED")]]>>],
      [state |-> [life_cycle_state |-> "SKIPPED"]],
      [state |-> [life_cycle_state |-> "INTERNAL_ERROR"]] }

\* the arguments of wait_for_run
WaitArguments == [run_id : {7}, poll_interval : {0, 1, 2}, timeout : {0, 1, 3}]

JobInit ==
    /\ CoreIdle
    /\ OrchestratorIdle
    /\ elapsed = 0
    /\ polled = "unbound"
    /\ returned = << >>
    /\ \/ /\ pc = "jobs"
          /\ workspace \in Workspaces
          /\ config = << >>
       \/ /\ pc = "wait_for_run"
          /\ workspace = << >>
          /\ config \in WaitArguments

\* what the job runner leaves alone
JobFrame ==
    UNCHANGED <<ticket, campaign, clock, payloads, taxonomy, eve, results, verdict, previous,
                orchestrator_vars>>

\* create_or_update_workflow(cfg)
CreateOrUpdateWorkflow ==
    /\ pc = "jobs"
    /\ Len(returned) < MaxCalls
    /\ \E cfg \in WorkflowConfigs, listed \in {"ok", "error"}, written_ \in {"ok", "error"} :
          /\ config' = cfg
          /\ workspace' = WorkspaceAfter(workspace, cfg, listed, written_)
          /\ returned' = Append(returned,
                                create_or_update_workflow(workspace, cfg, listed, written_))
    /\ JobFrame
    /\ UNCHANGED <<pc, raised, elapsed, polled>>

\* one pass of wait_for_run's loop: the poll, then the return or the sleep,
\* during which at least poll_interval seconds pass
WaitForRunPoll ==
    /\ pc = "wait_for_run"
    /\ elapsed < config.timeout
    /\ \E result \in RunsGetResults :
          LET status == get_run_status(config.run_id, result)
          IN  /\ polled' = status.lifecycle_state
              /\ IF status.lifecycle_state \in FinalStates
                 THEN /\ returned' = Append(returned, status)
                      /\ pc' = "waited"
                      /\ UNCHANGED elapsed
                 ELSE /\ \E passed \in {config.poll_interval, config.poll_interval + 1} :
                            elapsed' = elapsed + passed
                      /\ UNCHANGED <<returned, pc>>
    /\ JobFrame
    /\ UNCHANGED <<raised, workspace, config>>

\* the loop has ended on the timeout: the line printed names `state`, and
\* the status of one more poll is returned
WaitForRunTimeout ==
    /\ pc = "wait_for_run"
    /\ elapsed >= config.timeout
    /\ pc' = "waited"
    /\ IF polled = "unbound"
       THEN /\ raised' = "UnboundLocalError"
            /\ UNCHANGED returned
       ELSE /\ \E result \in RunsGetResults :
                  returned' = Append(returned, get_run_status(config.run_id, result))
            /\ UNCHANGED raised
    /\ JobFrame
    /\ UNCHANGED <<workspace, config, elapsed, polled>>

JobNext ==
    \/ CreateOrUpdateWorkflow
    \/ WaitForRunPoll
    \/ WaitForRunTimeout

JobSpec == JobInit /\ [][JobNext]_vars

\* the jobs of the workspace named name
JobsNamed(name) == {i \in 1..Len(workspace) : workspace[i].settings.name = name}

\* C29: create_or_update_workflow is idempotent: a workflow of the same name
\* that exists in the workspace is reset and no second job is created, so
\* the workspace never holds more than one job of a name.
C29_OneJobPerName ==
    \A name \in {"adops_daily", "adops_weekly"} : Cardinality(JobsNamed(name)) <= 1

\* C30: wait_for_run returns the final status: what it returns has the
\* lifecycle_state TERMINATED, SKIPPED or INTERNAL_ERROR, whatever the Jobs
\* API reports and whatever poll_interval and timeout are.
C30_ReturnsFinalStatus ==
    pc = "waited" =>
        /\ raised = "none"
        /\ Len(returned) = 1
        /\ returned[1].lifecycle_state \in FinalStates

====
